---- MODULE Spec2Model ----
(***************************************************************************)
(* Model of the oc-mirror test harness: the five polling monitors          *)
(* (pkg/monitor) and the iteration orchestrator (pkg/runner).              *)
(*                                                                         *)
(* Time is counted in units of 500 ms: the grace period of Stop is one     *)
(* unit, the default poll interval (1 s) two units, the poll interval the  *)
(* runner gives the per-phase resource monitors (500 ms) one unit.  The    *)
(* clock starts at 1; 0 is the zero time.Time.                             *)
(***************************************************************************)
EXTENDS Integers, Sequences, FiniteSets, TLC

(***************************************************************************)
(* Bounds of the model.                                                    *)
(***************************************************************************)
MaxTime == 3
MaxVal == 1
MaxCalls == 3
MaxIterations == 3
MaxResults == 3
MaxTicks == 102

(***************************************************************************)
(* Program constants, in units of 500 ms.                                  *)
(***************************************************************************)
Grace == 1
PollDefault == 2
PollFast == 1
ProgressChanCap == 100

Kinds == {"resource", "network", "diskwrite", "download", "registry"}

NoChan == 0

\* The zero time.Time, which startTime and stopTime hold until they are set.
ZeroTime == 0

\* The largest Duration: Time.Sub saturates, and the wall clock is further from
\* the zero Time than any Duration can express.
MaxDuration == 100 * MaxTime

\* Rates are fixed-point numbers: bytes per time unit, times RateScale.  The
\* code divides in float64, where no quotient of the values met here is lost;
\* RateScale is a multiple of every elapsed time a rate is divided by, the
\* saturated Duration included, and of every sample count an average is
\* divided by, so that no quotient is truncated here either.
RateScale == 5040 * MaxDuration

Sub(t, u) ==
  CASE t = u -> 0
    [] u = ZeroTime -> MaxDuration
    [] t = ZeroTime -> 0 - MaxDuration
    [] OTHER -> t - u

VARIABLES
  kind,          \* which of the five monitors this instance is
  pid,           \* ResourceMonitor.pid, the process whose /proc files are read
  pollInterval,  \* the monitor's pollInterval field (the network ticker is fixed)
  showProgress,  \* DownloadMonitor.showProgress
  now,           \* the wall clock
  env,           \* the quantity the sample source reads (counter, directory size)
  monitoring,    \* the monitoring flag
  startTime, stopTime,
  samples,       \* the samples slice
  initialBytes,  \* initialBytes / initialTxBytes, captured by Start
  progressChan,  \* DownloadMonitor.progressChan: NoChan (nil) or a channel id
  chans,         \* the progress channels made so far: [closes, sends]
  loops,         \* the monitorLoop goroutines spawned so far
  callerPc,      \* the owner's position: "idle" or inside Stop's grace period
  stopDeadline,  \* when the grace period of the Stop in progress ends
  returned,      \* what the last Stop since the last Start returned, or NoMetrics
  lastOp,        \* the last lifecycle call that completed: none, start, stop
  startResult,   \* what the last Start returned: none, ok, already
  accesses,      \* the accesses to the flag, the samples, the PID and the poll
                 \* interval made without the lock
  sendOnClosed,  \* a send hit a closed progress channel (the program panics)
  nCalls,        \* the Start and Stop calls made so far
  ticks          \* the ticks the session's ticker delivered while it was running

\* The orchestrator (pkg/runner).
VARIABLES
  cfgIterations, \* Config.Iterations as handed to NewTestRunner
  compareV1V2,   \* Config.CompareV1V2
  iterations,    \* tr.config.Iterations, after NewTestRunner
  rpc,           \* where Run is
  version,       \* the version group being run: "v1" or "v2"
  iter,          \* the loop variable i of the group's loop
  isCleanRun,    \* the isCleanRun argument of the runIteration in progress
  cmdErr,        \* the err local of the phase in progress: NilError or an error
  results,       \* tr.results
  v1Results, v2Results,
  runErr,        \* what Run returned: NotReturned, NilError or an error message
  mons,          \* per runIteration call: its six monitors (Start and Stop
                 \* calls), the phase's metrics and the iteration's result as
                 \* built so far, and what the phase and the iteration returned
  cmds,          \* the mirroring commands executed so far
  cleans,        \* the cleanWorkspace calls made so far
  mirrorDirs,    \* per version, what mirror/operators-<version> holds: the
                 \* iterations whose download wrote there (0: an earlier run)
  cacheDirs,     \* per version, what the cache directory operators-<version>
                 \* holds, in the same terms
  comparisons,   \* the comparisons run so far
  saves,         \* the saveResults calls made so far
  errs           \* the errors met so far, logged where they arise

monVars == <<kind, pid, pollInterval, showProgress, now, env, monitoring, startTime, stopTime,
             samples, initialBytes, progressChan, chans, loops, callerPc,
             stopDeadline, returned, lastOp, startResult, accesses,
             sendOnClosed, nCalls, ticks>>

\* The reporting functions (pkg/runner, pkg/monitor/output.go), taken on
\* their own: what each is given and what it produced.
VARIABLES
  cmpResults,    \* tr.results as compareCleanVsCached finds it
  cmpReport,     \* what compareCleanVsCached printed, or NotCalled
  outDirs,       \* the two directories CompareOutputs is given: path -> file
  resultsChan,   \* CompareOutputs' resultsChan: the analyses sent so far
  outResult,     \* what CompareOutputs returned, or NotCalled
  progress       \* a download session's loop and its progress channel, in counts

fnVars == <<cmpResults, cmpReport, outDirs, resultsChan, outResult, progress>>

\* A function that has not been called yet.
NotCalled == [called |-> FALSE]

\* A download session right after Start: the loop waits for its first tick, no
\* sample is recorded, the progress channel is empty and nobody has asked for
\* it.
NoProgress ==
  [pc |-> "wait", show |-> TRUE, receiver |-> FALSE, samples |-> 0, buffered |-> 0,
   received |-> 0, dropped |-> 0, skipped |-> 0]

\* The reporting functions before any is called, for the other specifications.
FnIdle ==
  /\ cmpResults = <<>>
  /\ cmpReport = NotCalled
  /\ outDirs = <<>>
  /\ resultsChan = <<>>
  /\ outResult = NotCalled
  /\ progress = NoProgress

(***************************************************************************)
(* Per-monitor differences.                                                *)
(***************************************************************************)
\* NetworkMonitor has no mutex; the other four guard their state with mu.
UsesLock(k) == k # "network"

StartNeverErrs(k) == FALSE

\* Start on a running monitor: an error for network and registry, nil otherwise.
StartErrsWhenRunning(k) == k \in {"network", "registry"}

\* The ticker period of the monitor loop: NetworkMonitor uses a fixed 1 s ticker.
TickerPeriod(k, p) == IF k = "network" THEN PollDefault ELSE p

\* How long a monitor is followed.  The ticker of NetworkMonitor cannot be made
\* faster than 1 s, twice the fastest period of the others: it is followed for
\* twice as long, so that it too is seen over several ticks.
SessionEnd(k) == IF k = "network" THEN (PollDefault \div PollFast) * MaxTime ELSE MaxTime

\* Start captures a baseline reading for the download and registry monitors.
CapturesBaseline(k) == k \in {"download", "registry"}

\* The intervals SetPollInterval is given: any Duration, of which the 500 ms
\* and the 1 s the runner sets, and 0 for those that are not positive.
\* NetworkMonitor has no SetPollInterval.
PollChoices(k) == IF k = "network" THEN {} ELSE {0, PollFast, PollDefault}

(***************************************************************************)
(* Arithmetic of the sampling loops and of the aggregates.                 *)
(***************************************************************************)
Rate(delta, elapsed) == IF elapsed > 0 THEN (delta * RateScale) \div elapsed ELSE 0

\* Which samples an aggregate counts: rate > 0 ("pos", disk-write), rate >= 0
\* ("nonneg", download and registry), all of them ("all", resource).
Valid(mode, r) ==
  CASE mode = "pos" -> r > 0
    [] mode = "nonneg" -> r >= 0
    [] OTHER -> TRUE

RECURSIVE SumRate(_, _)
SumRate(s, mode) ==
  IF s = <<>> THEN 0
  ELSE (IF Valid(mode, Head(s).rate) THEN Head(s).rate ELSE 0) + SumRate(Tail(s), mode)

RECURSIVE CountRate(_, _)
CountRate(s, mode) ==
  IF s = <<>> THEN 0
  ELSE (IF Valid(mode, Head(s).rate) THEN 1 ELSE 0) + CountRate(Tail(s), mode)

\* peak starts at 0 and is raised by every counted sample above it
RECURSIVE PeakRate(_, _, _)
PeakRate(s, mode, peak) ==
  IF s = <<>> THEN peak
  ELSE PeakRate(Tail(s), mode,
                IF Valid(mode, Head(s).rate) /\ Head(s).rate > peak
                  THEN Head(s).rate ELSE peak)

\* minRate starts at -1; download.go:313, registry.go:357
RECURSIVE MinRateFrom(_, _)
MinRateFrom(s, minRate) ==
  IF s = <<>> THEN minRate
  ELSE MinRateFrom(Tail(s),
         IF Head(s).rate >= 0
            /\ (minRate < 0 \/ (Head(s).rate < minRate /\ Head(s).rate > 0))
           THEN Head(s).rate ELSE minRate)

MinRate(s) == LET m == MinRateFrom(s, -1) IN IF m < 0 THEN 0 ELSE m

\* No Stop has returned yet.
NoMetrics == [none |-> TRUE]

ZeroMetrics ==
  [samples |-> <<>>, duration |-> 0, total |-> 0, avg |-> 0, peak |-> 0, min |-> 0,
   conns |-> 0]

\* NetworkMetrics{}: avg is AverageBandwidthMbps, avgRx and avgTx are
\* AverageRxRateMbps and AverageTxRateMbps.
ZeroNetworkMetrics ==
  [samples |-> <<>>, duration |-> 0, total |-> 0, avg |-> 0, peak |-> 0, min |-> 0,
   conns |-> 0, avgRx |-> 0, avgTx |-> 0]

\* The zero value of the aggregate of a monitor of kind k.
EmptyMetrics(k) == IF k = "network" THEN ZeroNetworkMetrics ELSE ZeroMetrics


(***************************************************************************)
(* calculateMetrics of the five monitors.  s is the samples slice, st and  *)
(* sp are startTime and stopTime.                                          *)
(***************************************************************************)
Last(s) == s[Len(s)]

CalcResource(s, st, sp) ==
  IF Len(s) = 0
    THEN [ZeroMetrics EXCEPT !.duration = Sub(sp, st)]
    ELSE [samples |-> s, duration |-> Sub(sp, st), total |-> 0,
          avg |-> SumRate(s, "all") \div Len(s),
          peak |-> PeakRate(s, "all", 0), min |-> 0, conns |-> 0]

\* The loop of NetworkMonitor.calculateMetrics: a sample is counted when its
\* RxRate or its TxRate is above zero, and then both rates are added, whatever
\* their sign; the peak is taken of their sum.
RECURSIVE NetworkTotals(_, _)
NetworkTotals(s, acc) ==
  IF s = <<>> THEN acc
  ELSE LET sample == Head(s)
           totalRate == sample.rxRate + sample.txRate
       IN NetworkTotals(Tail(s),
            IF sample.rxRate > 0 \/ sample.txRate > 0
              THEN [totalRxRate |-> acc.totalRxRate + sample.rxRate,
                    totalTxRate |-> acc.totalTxRate + sample.txRate,
                    validSamples |-> acc.validSamples + 1,
                    peakRate |-> IF totalRate > acc.peakRate THEN totalRate
                                 ELSE acc.peakRate]
              ELSE acc)

\* NetworkMetrics carries no copy of the samples.
CalcNetwork(s, st, sp) ==
  IF Len(s) = 0
    THEN [ZeroNetworkMetrics EXCEPT !.duration = Sub(sp, st)]
    ELSE LET t == NetworkTotals(s, [totalRxRate |-> 0, totalTxRate |-> 0,
                                    validSamples |-> 0, peakRate |-> 0])
             avgRx == IF t.validSamples > 0 THEN t.totalRxRate \div t.validSamples ELSE 0
             avgTx == IF t.validSamples > 0 THEN t.totalTxRate \div t.validSamples ELSE 0
         IN [samples |-> <<>>, duration |-> Sub(sp, st),
             total |-> (Last(s).rxBytes - s[1].rxBytes) + (Last(s).txBytes - s[1].txBytes),
             avg |-> avgRx + avgTx, peak |-> t.peakRate, min |-> 0, conns |-> 0,
             avgRx |-> avgRx, avgTx |-> avgTx]

\* dirNow is what getDirectorySize reads when there is no sample.
CalcDownload(s, st, sp, dirNow, initial) ==
  IF Len(s) = 0
    THEN [ZeroMetrics EXCEPT !.duration = Sub(sp, st), !.total = dirNow - initial,
                             !.avg = IF Sub(sp, st) > 0
                                        THEN Rate(dirNow - initial, Sub(sp, st)) ELSE 0]
    ELSE LET validSamples == CountRate(s, "nonneg") IN
         [samples |-> s, duration |-> Sub(sp, st), total |-> Last(s).total,
          avg |-> IF validSamples > 0 THEN SumRate(s, "nonneg") \div validSamples
                  ELSE IF Sub(sp, st) > 0 THEN Rate(Last(s).total, Sub(sp, st)) ELSE 0,
          peak |-> PeakRate(s, "nonneg", 0), min |-> MinRate(s), conns |-> 0]

CalcRegistry(s, st, sp) ==
  IF Len(s) = 0
    THEN [ZeroMetrics EXCEPT !.duration = Sub(sp, st)]
    ELSE LET validSamples == CountRate(s, "nonneg") IN
         [samples |-> s, duration |-> Sub(sp, st), total |-> Last(s).total,
          avg |-> IF validSamples > 0 THEN SumRate(s, "nonneg") \div validSamples
                  ELSE IF Sub(sp, st) > 0 THEN Rate(Last(s).total, Sub(sp, st)) ELSE 0,
          peak |-> PeakRate(s, "nonneg", 0), min |-> MinRate(s),
          conns |-> Last(s).conns]

\* getCurrentMetrics of the registry monitor: the aggregate of the samples
\* collected so far, t being time.Now().  ConnectionCount is left unset.
getCurrentMetrics(s, st, t, initial) ==
  IF Len(s) = 0
    THEN [ZeroMetrics EXCEPT !.duration = Sub(t, st)]
    ELSE LET validSamples == CountRate(s, "nonneg") IN
         [samples |-> s, duration |-> Sub(t, st), total |-> Last(s).total - initial,
          avg |-> IF validSamples > 0 THEN SumRate(s, "nonneg") \div validSamples ELSE 0,
          peak |-> PeakRate(s, "nonneg", 0), min |-> MinRate(s), conns |-> 0]

CalcDiskWrite(s, st, sp) ==
  IF Len(s) = 0
    THEN [ZeroMetrics EXCEPT !.duration = Sub(sp, st)]
    ELSE LET validSamples == CountRate(s, "pos") IN
         [samples |-> s, duration |-> Sub(sp, st), total |-> Last(s).total,
          avg |-> IF validSamples > 0 THEN SumRate(s, "pos") \div validSamples
                  ELSE IF Sub(sp, st) > 0 THEN Rate(Last(s).total, Sub(sp, st)) ELSE 0,
          peak |-> PeakRate(s, "pos", 0), min |-> 0, conns |-> 0]

CalculateMetrics(k, s, st, sp, dirNow, initial) ==
  CASE k = "resource" -> CalcResource(s, st, sp)
    [] k = "network" -> CalcNetwork(s, st, sp)
    [] k = "download" -> CalcDownload(s, st, sp, dirNow, initial)
    [] k = "registry" -> CalcRegistry(s, st, sp)
    [] OTHER -> CalcDiskWrite(s, st, sp)

(***************************************************************************)
(* The sample one tick of the monitor loop produces.  cur is the reading,  *)
(* l the goroutine's locals (lastVal, lastTs, first), t the time of the    *)
(* reading.                                                                *)
(***************************************************************************)
\* What the sample source reads: one quantity (CPU time, bytes written, a
\* directory size), and for NetworkMonitor the interface's two counters.
Readings(k) == IF k = "network" THEN [rx : 0..MaxVal, tx : 0..MaxVal] ELSE 0..MaxVal

\* resource: CPU percentage from the CPU-time delta over the time delta
\* download, registry: total net of the baseline, rate from the byte delta
\* disk-write: raw total, rate only from the second sample on
\* network: RxBytes and TxBytes, RxRate and TxRate only from the second sample on
CollectSample(k, cur, l, t, initial) ==
  CASE k = "resource" ->
         [ts |-> t, total |-> 0, delta |-> cur - l.lastVal,
          rate |-> Rate(cur - l.lastVal, t - l.lastTs)]
    [] k = "download" ->
         [ts |-> t, total |-> cur - initial, delta |-> cur - l.lastVal,
          rate |-> Rate(cur - l.lastVal, t - l.lastTs)]
    [] k = "registry" ->
         [ts |-> t, total |-> cur - initial, delta |-> cur - l.lastVal,
          rate |-> Rate(cur - l.lastVal, t - l.lastTs), conns |-> 0]
    [] k = "network" ->
         LET rated == ~l.first /\ l.lastTs < t IN
         [ts |-> t, rxBytes |-> cur.rx, txBytes |-> cur.tx,
          rxRate |-> IF rated THEN Rate(cur.rx - l.lastVal.rx, t - l.lastTs) ELSE 0,
          txRate |-> IF rated THEN Rate(cur.tx - l.lastVal.tx, t - l.lastTs) ELSE 0]
    [] OTHER ->
         [ts |-> t, total |-> cur, delta |-> 0,
          rate |-> IF ~l.first /\ l.lastTs < t
                     THEN Rate(cur - l.lastVal, t - l.lastTs) ELSE 0]

\* What getRegistryConnections can count.
Connections == 0..1

\* The registry sample with the connections counted at the tick.
WithConnections(k, sample, c) ==
  IF k = "registry" THEN [sample EXCEPT !.conns = c] ELSE sample

\* NetworkMonitor drops a reading of two zeros unless it is the first sample.
KeepsSample(k, cur, l) == k # "network" \/ cur.rx > 0 \/ cur.tx > 0 \/ l.first

\* An access to variable v (the flag or the samples; w: a write), recorded when
\* the code makes it without holding the monitor's lock.  An access by the
\* owner records how many loop goroutines had been spawned before it, an access
\* by a loop goroutine records which goroutine it is: the go statement orders
\* what the owner did before it ahead of the goroutine it starts, and nothing
\* else orders the two threads.
\* os.Getpid(), the target NewResourceMonitor sets, and the PID of a child.
OwnPid == 1
Pids == {OwnPid, OwnPid + 1}

\* getCPUTime, getMemoryUsage and getThreadCount read rm.pid, and the loop
\* calls them holding no lock: the read that loop goroutine g makes.
PidRead(k, g) ==
  IF k = "resource" THEN {[t |-> "loop", n |-> g, v |-> "pid", w |-> FALSE]} ELSE {}

\* SetPollInterval writes pollInterval and the loop reads it for its ticker,
\* neither holding a lock; NetworkMonitor has no such field.
PollAccess(k, t, n, w) ==
  IF k = "network" THEN {} ELSE {[t |-> t, n |-> n, v |-> "pollInterval", w |-> w]}

Acc(t, n, v, w) ==
  IF UsesLock(kind) THEN {} ELSE {[t |-> t, n |-> n, v |-> v, w |-> w]}


runVars == <<cfgIterations, compareV1V2, iterations, rpc, version, iter, isCleanRun,
             cmdErr, results, v1Results, v2Results, runErr, mons, cmds, cleans, errs,
             comparisons, saves, mirrorDirs, cacheDirs>>

vars == <<monVars, runVars, fnVars>>

(***************************************************************************)
(* The monitor: construction.                                              *)
(***************************************************************************)
(***************************************************************************)
(* The orchestrator: values and helpers.                                   *)
(***************************************************************************)
NotReturned == <<"not returned">>
NilError == <<"nil">>

\* Config.Validate on a configuration whose registry URL is set: nil, or the
\* error it returns.
Validate(n, cmp) ==
  IF n < 1 THEN <<"iterations must be at least 1">>
  ELSE IF n < 2 /\ ~cmp
    THEN <<"iterations must be at least 2 for clean vs cached comparison">>
  ELSE NilError

\* NewTestRunner raises an iteration count below 2 to 2.
NewTestRunnerIterations(n) == IF n < 2 THEN 2 ELSE n

\* The six monitors one runIteration call creates.
MonitorNames == {"network", "overallResource", "download", "downloadResource",
                 "uploadNetwork", "uploadResource"}

NewMonitors == [m \in MonitorNames |-> [starts |-> 0, stops |-> 0, monitoring |-> FALSE]]

\* The effect of Start and of Stop on a monitor, as its owner sees it.
MonStart(m) ==
  IF m.monitoring THEN [m EXCEPT !.starts = @ + 1]
  ELSE [m EXCEPT !.starts = @ + 1, !.monitoring = TRUE]

MonStopSkipped(m) == [m EXCEPT !.monitoring = FALSE]

MonStopKeepsRunning(m) == [m EXCEPT !.stops = @ + 1]

MonStop(m) == [m EXCEPT !.stops = @ + 1, !.monitoring = FALSE]

\* The orchestrator before Run is called, for the monitor's own specification.
RunIdle ==
  /\ cfgIterations = 2
  /\ compareV1V2 = FALSE
  /\ iterations = 2
  /\ rpc = "idle"
  /\ version = "v2"
  /\ iter = 0
  /\ isCleanRun = FALSE
  /\ cmdErr = NilError
  /\ mirrorDirs = [v \in {"v1", "v2"} |-> {}]
  /\ cacheDirs = [v \in {"v1", "v2"} |-> {}]
  /\ results = <<>>
  /\ v1Results = <<>>
  /\ v2Results = <<>>
  /\ runErr = NotReturned
  /\ mons = <<>>
  /\ cmds = <<>>
  /\ cleans = <<>>
  /\ comparisons = <<>>
  /\ saves = <<>>
  /\ errs = <<>>

\* The loop has no sample in hand.
NoSample == [none |-> TRUE]

\* A goroutine's locals: its ticker (period, nextTick, pending), lastVal,
\* lastTs and first, the channel it copied, and from the reading to the append
\* the reading (cur), the sample built from it and, for NetworkMonitor, the
\* slice its append read (held).
NewLoop ==
  [pc |-> "spawned", period |-> 0, nextTick |-> 0, pending |-> FALSE,
   lastVal |-> 0, lastTs |-> 0, first |-> TRUE, ch |-> NoChan,
   cur |-> 0, sample |-> NoSample, held |-> <<>>]

\* A goroutine that has returned: its ticker is stopped, its locals are gone.
DoneLoop == [NewLoop EXCEPT !.pc = "done"]

\* time.NewTicker panics when its period is not positive.
PanickedLoop == [NewLoop EXCEPT !.pc = "panicked"]

\* A panic in a goroutine ends the program: a send on a closed channel, or a
\* ticker made with a period that is not positive.
Crashed == sendOnClosed \/ \E g \in DOMAIN loops : loops[g].pc = "panicked"

InitMonitor ==
  /\ FnIdle
  /\ kind \in Kinds
  /\ pid = OwnPid
  /\ pollInterval = PollDefault
  /\ showProgress = TRUE
  /\ now = ZeroTime + 1
  /\ env \in Readings(kind)
  /\ monitoring = FALSE
  /\ startTime = ZeroTime
  /\ stopTime = ZeroTime
  /\ samples = <<>>
  /\ initialBytes = 0
  /\ progressChan = NoChan
  /\ chans = <<>>
  /\ loops = <<>>
  /\ callerPc = "idle"
  /\ stopDeadline = ZeroTime
  /\ returned = NoMetrics
  /\ lastOp = "none"
  /\ startResult = "none"
  /\ accesses = {}
  /\ sendOnClosed = FALSE
  /\ nCalls = 0
  /\ ticks = 0
  /\ RunIdle

\* A ticker delivers a tick when its period has elapsed; its channel holds one.
\* As time passes the observed quantity changes (files written or deleted,
\* counters moving, a read that fails and yields 0).
TickerLive(l) == l.pc \notin {"spawned", "done", "panicked"}

\* The ticker of the session's own goroutine (the last one spawned) puts a tick
\* into its channel at time t; a tick the channel has no room for is dropped.
TickDue(ls, t) ==
  /\ ls # <<>>
  /\ TickerLive(ls[Len(ls)])
  /\ t >= ls[Len(ls)].nextTick
  /\ ~ls[Len(ls)].pending

Advance ==
  /\ ~Crashed
  /\ now < SessionEnd(kind)
  /\ now' = now + 1
  /\ loops' = [g \in DOMAIN loops |->
                 IF TickerLive(loops[g]) /\ now + 1 >= loops[g].nextTick
                   THEN [loops[g] EXCEPT !.pending = TRUE,
                                         !.nextTick = @ + loops[g].period]
                   ELSE loops[g]]
  /\ env' \in Readings(kind)
  /\ ticks' = IF monitoring /\ TickDue(loops, now + 1) THEN ticks + 1 ELSE ticks
  /\ UNCHANGED <<kind, pid, pollInterval, showProgress, monitoring, startTime, stopTime, samples,
                 initialBytes, progressChan, chans, callerPc, stopDeadline, returned,
                 lastOp, startResult, accesses, sendOnClosed, nCalls>>
  /\ UNCHANGED <<runVars, fnVars>>

(***************************************************************************)
(* Start and Stop, called by the monitor's owner.                          *)
(***************************************************************************)
Start ==
  /\ ~Crashed
  /\ callerPc = "idle"
  /\ nCalls < MaxCalls
  /\ nCalls' = nCalls + 1
  /\ lastOp' = "start"
  /\ IF monitoring
       THEN /\ startResult' = IF StartErrsWhenRunning(kind) THEN "already" ELSE "ok"
            /\ accesses' = accesses \cup Acc("caller", Len(loops), "flag", FALSE)
            /\ UNCHANGED <<monitoring, startTime, samples, initialBytes, progressChan,
                           chans, loops, returned, ticks>>
       ELSE /\ startResult' = "ok"
            /\ initialBytes' = IF CapturesBaseline(kind) THEN env ELSE initialBytes
            /\ startTime' = now
            /\ monitoring' = TRUE
            /\ samples' = <<>>
            /\ IF kind = "download" /\ progressChan = NoChan
                 THEN /\ chans' = Append(chans, [closes |-> 0, sends |-> 0])
                      /\ progressChan' = Len(chans) + 1
                 ELSE UNCHANGED <<chans, progressChan>>
            /\ loops' = Append(loops, NewLoop)
            /\ returned' = NoMetrics
            /\ ticks' = 0
            /\ accesses' = accesses \cup Acc("caller", Len(loops), "flag", FALSE)
                                   \cup Acc("caller", Len(loops), "flag", TRUE)
                                   \cup Acc("caller", Len(loops), "samples", TRUE)
  /\ UNCHANGED <<kind, pid, pollInterval, showProgress, now, env, stopTime, callerPc, stopDeadline,
                 sendOnClosed>>
  /\ UNCHANGED <<runVars, fnVars>>

\* The first half of Stop: clear the flag, record stopTime, close the progress
\* channel; then the grace period begins.  NetworkMonitor.Stop on a monitor
\* that is not running returns an empty NetworkMetrics at once.
StopBegin ==
  /\ ~Crashed
  /\ callerPc = "idle"
  /\ nCalls < MaxCalls
  /\ nCalls' = nCalls + 1
  /\ IF kind = "network" /\ ~monitoring
       THEN /\ returned' = ZeroNetworkMetrics
            /\ lastOp' = "stop"
            /\ accesses' = accesses \cup Acc("caller", Len(loops), "flag", FALSE)
            /\ UNCHANGED <<monitoring, stopTime, chans, progressChan, callerPc,
                           stopDeadline>>
       ELSE /\ monitoring' = FALSE
            /\ stopTime' = now
            /\ IF kind = "download" /\ progressChan # NoChan
                 THEN /\ chans' = [chans EXCEPT ![progressChan].closes = @ + 1]
                      /\ progressChan' = NoChan
                 ELSE UNCHANGED <<chans, progressChan>>
            /\ callerPc' = "stopping"
            /\ stopDeadline' = now + Grace
            /\ accesses' = accesses \cup
                 (IF kind = "network" THEN Acc("caller", Len(loops), "flag", FALSE) ELSE {})
                 \cup Acc("caller", Len(loops), "flag", TRUE)
            /\ UNCHANGED <<returned, lastOp>>
  /\ UNCHANGED <<kind, pid, pollInterval, showProgress, now, env, startTime, samples, initialBytes,
                 loops, startResult, sendOnClosed>>
  /\ UNCHANGED <<ticks, runVars, fnVars>>

\* The second half of Stop: the grace period is over, calculateMetrics runs.
StopReturn ==
  /\ ~Crashed
  /\ callerPc = "stopping"
  /\ now >= stopDeadline
  /\ returned' = CalculateMetrics(kind, samples, startTime, stopTime, env, initialBytes)
  /\ callerPc' = "idle"
  /\ lastOp' = "stop"
  /\ accesses' = accesses \cup Acc("caller", Len(loops), "samples", FALSE)
  /\ UNCHANGED <<kind, pid, pollInterval, showProgress, now, env, monitoring, startTime,
                 stopTime, samples,
                 initialBytes, progressChan, chans, loops, stopDeadline, startResult,
                 sendOnClosed, nCalls>>
  /\ UNCHANGED <<ticks, runVars, fnVars>>


(***************************************************************************)
(* monitorLoop, one goroutine per successful Start.                        *)
(***************************************************************************)
\* What the loop's locals start from: the resource loop reads the CPU time and
\* the clock itself, the download and registry loops start from the baseline
\* and startTime, the network and disk-write loops from 0 and startTime.
InitialLast(k, cur, initial) ==
  CASE k = "resource" -> cur
    [] k \in {"download", "registry"} -> initial
    [] k = "network" -> [rx |-> 0, tx |-> 0]
    [] OTHER -> 0

LoopInit(g) ==
  /\ ~Crashed
  /\ loops[g].pc = "spawned"
  /\ LET period == TickerPeriod(kind, pollInterval) IN
       IF period <= 0
         THEN /\ loops' = [loops EXCEPT ![g] = PanickedLoop]
              /\ accesses' = accesses \cup PollAccess(kind, "loop", g, FALSE)
         ELSE /\ loops' = [loops EXCEPT ![g] =
                             [@ EXCEPT !.pc = "check",
                                       !.period = period,
                                       !.nextTick = now + period,
                                       !.lastVal = InitialLast(kind, env, initialBytes),
                                       !.lastTs = IF kind = "resource" THEN now
                                                  ELSE startTime]]
              /\ accesses' = accesses \cup PollAccess(kind, "loop", g, FALSE)
                                     \cup PidRead(kind, g)
  /\ UNCHANGED <<kind, pid, pollInterval, showProgress, now, env, monitoring, startTime,
                 stopTime, samples, initialBytes, progressChan, chans, callerPc, stopDeadline,
                 returned, lastOp, startResult, sendOnClosed, nCalls>>
  /\ UNCHANGED <<ticks, runVars, fnVars>>

\* What a read of the monitoring flag by the loop may yield.  Under mu it is the
\* flag; NetworkMonitor reads it with no synchronisation, so a read after an
\* unordered write may still yield the value the goroutine saw before (TRUE).
FlagSeenByLoop(k, flag) == IF UsesLock(k) THEN {flag} ELSE {flag, TRUE}

\* The top of the loop: read the flag, leave when it is cleared, otherwise
\* block on the ticker.
LoopCheck(g) ==
  /\ ~Crashed
  /\ loops[g].pc = "check"
  /\ \E seen \in FlagSeenByLoop(kind, monitoring) :
       loops' = [loops EXCEPT ![g] = IF seen THEN [@ EXCEPT !.pc = "wait"] ELSE DoneLoop]
  /\ accesses' = accesses \cup Acc("loop", g, "flag", FALSE)
  /\ UNCHANGED <<kind, pid, pollInterval, showProgress, now, env, monitoring, startTime,
                 stopTime, samples,
                 initialBytes, progressChan, chans, callerPc, stopDeadline, returned,
                 lastOp, startResult, sendOnClosed, nCalls>>
  /\ UNCHANGED <<ticks, runVars, fnVars>>

\* case <-ticker.C: take the reading and the time and build the sample, all
\* of it holding no lock.  NetworkMonitor goes on to the append only with a
\* sample it keeps.
LoopTick(g) ==
  /\ ~Crashed
  /\ loops[g].pc = "wait"
  /\ loops[g].pending
  /\ LET l == loops[g] IN
       \E c \in Connections :
         loops' = [loops EXCEPT ![g] =
                     IF KeepsSample(kind, env, l)
                       THEN [l EXCEPT !.pc = "append", !.pending = FALSE, !.cur = env,
                                      !.sample =
                                        WithConnections(kind,
                                          CollectSample(kind, env, l, now, initialBytes),
                                          c)]
                       ELSE [l EXCEPT !.pc = "check", !.pending = FALSE]]
  /\ accesses' = accesses \cup PidRead(kind, g)
  /\ UNCHANGED <<kind, pid, pollInterval, showProgress, now, env, monitoring, startTime,
                 stopTime, samples, initialBytes, progressChan, chans, callerPc, stopDeadline,
                 returned, lastOp, startResult, sendOnClosed, nCalls>>
  /\ UNCHANGED <<ticks, runVars, fnVars>>

\* The locals after the append: the reading and its time become the last ones.
AfterAppend(l, next) ==
  [l EXCEPT !.pc = next, !.lastVal = l.cur, !.lastTs = l.sample.ts, !.first = FALSE,
            !.cur = 0, !.sample = NoSample, !.held = <<>>]

\* samples = append(samples, sample).  The four monitors with a mutex do it
\* holding the lock; NetworkMonitor holds none, and its append first reads the
\* slice and later stores the longer one.  The download loop goes on to read
\* showProgress, the lock released.
LoopAppend(g) ==
  /\ ~Crashed
  /\ loops[g].pc = "append"
  /\ LET l == loops[g]
         next == IF kind = "download" THEN "readshow" ELSE "check"
     IN IF UsesLock(kind)
          THEN /\ samples' = Append(samples, l.sample)
               /\ loops' = [loops EXCEPT ![g] = AfterAppend(l, next)]
               /\ UNCHANGED accesses
          ELSE /\ loops' = [loops EXCEPT ![g] = [l EXCEPT !.pc = "store", !.held = samples]]
               /\ accesses' = accesses \cup Acc("loop", g, "samples", FALSE)
               /\ UNCHANGED samples
  /\ UNCHANGED <<kind, pid, pollInterval, showProgress, now, env, monitoring, startTime,
                 stopTime, initialBytes, progressChan, chans, callerPc, stopDeadline, returned,
                 lastOp, startResult, sendOnClosed, nCalls>>
  /\ UNCHANGED <<ticks, runVars, fnVars>>

\* NetworkMonitor: the store that ends the append, of the slice read before
\* with the sample added.
LoopStore(g) ==
  /\ ~Crashed
  /\ loops[g].pc = "store"
  /\ samples' = Append(loops[g].held, loops[g].sample)
  /\ loops' = [loops EXCEPT ![g] = AfterAppend(loops[g], "check")]
  /\ accesses' = accesses \cup Acc("loop", g, "samples", TRUE)
  /\ UNCHANGED <<kind, pid, pollInterval, showProgress, now, env, monitoring, startTime,
                 stopTime, initialBytes, progressChan, chans, callerPc, stopDeadline, returned,
                 lastOp, startResult, sendOnClosed, nCalls>>
  /\ UNCHANGED <<ticks, runVars, fnVars>>

\* DownloadMonitor: if dm.showProgress, read holding no lock.
LoopReadShow(g) ==
  /\ ~Crashed
  /\ loops[g].pc = "readshow"
  /\ loops' = [loops EXCEPT ![g].pc = IF showProgress THEN "readchan" ELSE "check"]
  /\ UNCHANGED <<kind, pid, pollInterval, showProgress, now, env, monitoring, startTime,
                 stopTime, samples, initialBytes, progressChan, chans, callerPc,
                 stopDeadline, returned, lastOp, startResult, accesses, sendOnClosed,
                 nCalls>>
  /\ UNCHANGED <<ticks, runVars, fnVars>>

\* DownloadMonitor: copy dm.progressChan into a local, under the read lock.
LoopReadChan(g) ==
  /\ ~Crashed
  /\ loops[g].pc = "readchan"
  /\ loops' = [loops EXCEPT ![g].ch = progressChan,
                            ![g].pc = IF progressChan # NoChan THEN "send" ELSE "check"]
  /\ UNCHANGED <<kind, pid, pollInterval, showProgress, now, env, monitoring, startTime,
                 stopTime, samples,
                 initialBytes, progressChan, chans, callerPc, stopDeadline, returned,
                 lastOp, startResult, accesses, sendOnClosed, nCalls>>
  /\ UNCHANGED <<ticks, runVars, fnVars>>

\* DownloadMonitor: the non-blocking send on the local copy of the channel.  A
\* send on a closed channel panics, select with default or not.
LoopSend(g) ==
  /\ ~Crashed
  /\ loops[g].pc = "send"
  /\ LET c == loops[g].ch IN
       /\ sendOnClosed' = (chans[c].closes > 0)
       /\ chans' = IF chans[c].closes = 0 /\ chans[c].sends < ProgressChanCap
                     THEN [chans EXCEPT ![c].sends = @ + 1]
                     ELSE chans
  /\ loops' = [loops EXCEPT ![g].pc = "check"]
  /\ accesses' = accesses \cup Acc("loop", g, "samples", FALSE)
  /\ UNCHANGED <<kind, pid, pollInterval, showProgress, now, env, monitoring, startTime,
                 stopTime, samples,
                 initialBytes, progressChan, callerPc, stopDeadline, returned,
                 lastOp, startResult, nCalls>>
  /\ UNCHANGED <<ticks, runVars, fnVars>>

\* SetTargetPID, from any goroutine and at any time: the write is made
\* holding the monitor's lock.
SetTargetPID(p) ==
  /\ ~Crashed
  /\ kind = "resource"
  /\ pid # p
  /\ pid' = p
  /\ UNCHANGED <<kind, pollInterval, showProgress, now, env, monitoring, startTime,
                 stopTime, samples,
                 initialBytes, progressChan, chans, loops, callerPc, stopDeadline,
                 returned, lastOp, startResult, accesses, sendOnClosed, nCalls>>
  /\ UNCHANGED <<ticks, runVars, fnVars>>

\* SetPollInterval, at any time: a plain store, no lock held.
SetPollInterval(interval) ==
  /\ ~Crashed
  /\ kind # "network"
  /\ pollInterval' = interval
  /\ accesses' = accesses \cup PollAccess(kind, "caller", Len(loops), TRUE)
  /\ UNCHANGED <<kind, pid, showProgress, now, env, monitoring, startTime, stopTime,
                 samples, initialBytes, progressChan, chans, loops, callerPc,
                 stopDeadline, returned, lastOp, startResult, sendOnClosed, nCalls>>
  /\ UNCHANGED <<ticks, runVars, fnVars>>

\* DownloadMonitor.SetShowProgress, at any time: a plain store.
SetShowProgress(show) ==
  /\ ~Crashed
  /\ kind = "download"
  /\ showProgress' = show
  /\ UNCHANGED <<kind, pid, pollInterval, now, env, monitoring, startTime, stopTime,
                 samples, initialBytes, progressChan, chans, loops, callerPc,
                 stopDeadline, returned, lastOp, startResult, accesses, sendOnClosed,
                 nCalls>>
  /\ UNCHANGED <<ticks, runVars, fnVars>>

\* DownloadMonitor.GetProgressChannel, at any time, holding the lock: it makes
\* the channel when there is none, before the first Start as after a Stop.
GetProgressChannel ==
  /\ ~Crashed
  /\ kind = "download"
  /\ progressChan = NoChan
  /\ chans' = Append(chans, [closes |-> 0, sends |-> 0])
  /\ progressChan' = Len(chans) + 1
  /\ UNCHANGED <<kind, pid, pollInterval, showProgress, now, env, monitoring, startTime,
                 stopTime, samples, initialBytes, loops, callerPc, stopDeadline,
                 returned, lastOp, startResult, accesses, sendOnClosed, nCalls>>
  /\ UNCHANGED <<ticks, runVars, fnVars>>

NextMonitor ==
  \/ Advance
  \/ Start
  \/ \E interval \in PollChoices(kind) : SetPollInterval(interval)
  \/ \E show \in BOOLEAN : SetShowProgress(show)
  \/ GetProgressChannel
  \/ \E p \in Pids : SetTargetPID(p)
  \/ StopBegin
  \/ StopReturn
  \/ \E g \in DOMAIN loops : LoopInit(g)
  \/ \E g \in DOMAIN loops : LoopCheck(g)
  \/ \E g \in DOMAIN loops : LoopTick(g)
  \/ \E g \in DOMAIN loops : LoopAppend(g)
  \/ \E g \in DOMAIN loops : LoopStore(g)
  \/ \E g \in DOMAIN loops : LoopReadShow(g)
  \/ \E g \in DOMAIN loops : LoopReadChan(g)
  \/ \E g \in DOMAIN loops : LoopSend(g)

SpecMonitor == InitMonitor /\ [][NextMonitor]_vars

(***************************************************************************)
(* The orchestrator: Run, the version groups and one iteration.            *)
(***************************************************************************)
\* fmt's %d.
Digit == <<"0", "1", "2", "3", "4", "5", "6", "7", "8", "9">>

RECURSIVE Itoa(_)
Itoa(n) == IF n < 10 THEN Digit[n + 1] ELSE Itoa(n \div 10) \o Digit[(n % 10) + 1]

\* fmt.Errorf("<msg>: %w", err): an error is the sequence of its segments.
Errorf(msg, err) == <<msg>> \o err

\* What can make a file-system or process operation fail.
Causes == {<<"permission denied">>}

NeverCleanRun(i) == FALSE

AlwaysCleanRun(i) == TRUE

\* The isCleanRun flag of the iteration with loop variable i.
IsCleanRun(i) == i = 0

\* The version group Run begins with.
FirstVersion(cmp) == IF cmp THEN "v1" ELSE "v2"

\* The words the group loops put before the iteration number in their error.
IterationPrefix(cmp, v) == IF cmp THEN v \o " iteration" ELSE "iteration"

IterationErrorIndexed(cmp, v, i, err) ==
  <<IterationPrefix(cmp, v), Itoa(i), "failed">> \o err

\* fmt.Errorf("iteration %d failed: %w", i+1, err) and its v1 / v2 variants.
IterationError(cmp, v, i, err) ==
  <<IterationPrefix(cmp, v), Itoa(i + 1), "failed">> \o err

\* Where Run goes when runIteration returned an error: it returns.
AfterIterationError == "returned"

SkipClean(cmp, v) ==
  IF ~cmp THEN "compare" ELSE IF v = "v1" THEN "nextgroup" ELSE "store"

\* Where Run goes when the loop of a version group has run all its iterations.
AfterGroup(cmp, v) ==
  IF ~cmp THEN "compare" ELSE IF v = "v1" THEN "cleanws" ELSE "store"

StoreResultsSwapped(v1, v2) == v2 \o v1

\* tr.results = append(v1Results, v2Results...)
StoreResults(v1, v2) == v1 \o v2

\* The TestResult runIteration builds.
TestResult(n, clean, v) == [iteration |-> n, isCleanRun |-> clean, version |-> v]

\* The runIteration call in progress is the last entry of mons.
Cur == Len(mons)

LogErr(phase, err) ==
  Append(errs, [version |-> version, iteration |-> iter + 1, phase |-> phase,
                err |-> err])

\* The pieces of state an action leaves alone.
cfgVars == <<cfgIterations, compareV1V2, iterations>>
loopVars == <<version, iter, isCleanRun>>
resVars == <<results, v1Results, v2Results>>
logVars == <<cmds, cleans, comparisons, saves>>

\* A call that has not returned yet.
NotReturnedYet == [returned |-> FALSE]

\* What a phase or an iteration returned: whether with an error, and the
\* monitors whose aggregates the returned value holds.
Returned(failed, carries) == [returned |-> TRUE, failed |-> failed, carries |-> carries]

\* A runIteration call as it begins.
NewIteration(v, n) ==
  [version |-> v, iteration |-> n, m |-> NewMonitors, metrics |-> {}, result |-> {},
   phaseOut |-> NotReturnedYet, iterOut |-> NotReturnedYet]

\* Where the caller puts the value a Stop returned, by the place of the call:
\* into the phase's metrics, into runIteration's result, or nowhere (the two
\* Stop calls of runIteration's error branches are bare statements).
StopValueTo(from) ==
  CASE from = "dl_stop_dl" -> "metrics"
    [] from \in {"up_net_start", "net_stop", "upnet_stop", "overall_stop"} -> "result"
    [] OTHER -> "dropped"

\* The holder h (metrics or result) after the value of name's Stop at from.
Holds(h, held, from, name, op) ==
  IF op = "stop" /\ StopValueTo(from) = h THEN held \cup {name} ELSE held

\* One Start or Stop call on a monitor of the iteration in progress.
MonCall(from, name, op, to) ==
  /\ rpc = from
  /\ mons' = [mons EXCEPT ![Cur].m[name] =
                           IF op = "start" THEN MonStart(@) ELSE MonStop(@),
                         ![Cur].metrics = Holds("metrics", @, from, name, op),
                         ![Cur].result = Holds("result", @, from, name, op)]
  /\ rpc' = to
  /\ UNCHANGED <<cfgVars, loopVars, resVars, logVars, mirrorDirs, cacheDirs, cmdErr,
                 runErr, errs, monVars, fnVars>>

\* runIteration returned an error: the group loop wraps it and Run returns.
IterationFails(err) ==
  /\ runErr' = IterationError(compareV1V2, version, iter, err)
  /\ rpc' = AfterIterationError

\* Run: setupDirectories and the three imageset-config files, then the mode.
SetupFailures == {"failed to setup directories", "failed to create v1 imageset-config",
                  "failed to create v2 imageset-config",
                  "failed to create imageset-config"}

SetupErrorIgnored == "loop"

\* Where Run goes when setup failed: it returns.
AfterSetupError == "returned"

RunSetup ==
  /\ rpc = "run"
  /\ \/ /\ rpc' = "loop"
        /\ version' = FirstVersion(compareV1V2)
        /\ iter' = 0
        /\ UNCHANGED <<runErr, errs>>
     \/ \E msg \in SetupFailures, c \in Causes :
          /\ runErr' = Errorf(msg, c)
          /\ errs' = Append(errs, [version |-> "none", iteration |-> 0,
                                   phase |-> "setup", err |-> c])
          /\ rpc' = AfterSetupError
          /\ UNCHANGED <<version, iter>>
  /\ UNCHANGED <<cfgVars, isCleanRun, resVars, logVars, mirrorDirs, cacheDirs, cmdErr,
                 mons, monVars, fnVars>>

\* The head of a group's for loop: the next runIteration call, or the loop ends.
LoopHead ==
  /\ rpc = "loop"
  /\ IF iter < iterations
     THEN /\ isCleanRun' = IsCleanRun(iter)
          /\ mons' = Append(mons, NewIteration(version, iter + 1))
          /\ rpc' = IF isCleanRun' THEN "it_clean" ELSE "it_net_start"
     ELSE /\ rpc' = AfterGroup(compareV1V2, version)
          /\ UNCHANGED <<isCleanRun, mons>>
  /\ UNCHANGED <<cfgVars, version, iter, resVars, logVars, mirrorDirs, cacheDirs, cmdErr,
                 runErr, errs, monVars, fnVars>>

\* runIteration, clean run: cleanWorkspaceForVersion.
\* The directories after os.RemoveAll and os.MkdirAll of those of vs.
Wiped(dirs, vs) == [v \in DOMAIN dirs |-> IF v \in vs THEN {} ELSE dirs[v]]

\* runIteration, clean run: the version's mirror directory and platform/mirror
\* are removed and made again; an error part-way leaves the rest as it was.
\* The cache directory is not in the list.
CleanWorkspaceForVersion ==
  /\ rpc = "it_clean"
  /\ \/ /\ rpc' = "it_net_start"
        /\ mirrorDirs' = Wiped(mirrorDirs, {version})
        /\ UNCHANGED <<runErr, errs, mons>>
     \/ \E c \in Causes, removed \in SUBSET {version} :
          /\ errs' = LogErr("clean", c)
          /\ mirrorDirs' = Wiped(mirrorDirs, removed)
          /\ mons' = [mons EXCEPT ![Cur].iterOut = Returned(TRUE, mons[Cur].result)]
          /\ IterationFails(Errorf("failed to clean workspace", c))
  /\ UNCHANGED <<cfgVars, loopVars, resVars, logVars, cacheDirs, cmdErr, monVars, fnVars>>

StartNetworkMonitor == MonCall("it_net_start", "network", "start", "it_overall_start")

StartOverallResourceMonitor == MonCall("it_overall_start", "overallResource", "start", "dl_mkdir")

\* runDownloadPhase: metrics := PhaseMetrics{}, then os.MkdirAll of the mirror
\* directory, before any monitor.
EnsureMirrorDir ==
  /\ rpc = "dl_mkdir"
  /\ \/ /\ rpc' = "dl_mon_start"
        /\ mons' = [mons EXCEPT ![Cur].metrics = {}, ![Cur].phaseOut = NotReturnedYet]
        /\ UNCHANGED <<cmdErr, errs>>
     \/ \E c \in Causes :
          /\ cmdErr' = Errorf("failed to create mirror directory", c)
          /\ errs' = LogErr("download", c)
          /\ mons' = [mons EXCEPT ![Cur].metrics = {}, ![Cur].phaseOut = Returned(TRUE, {})]
          /\ rpc' = "dl_failed"
  /\ UNCHANGED <<cfgVars, loopVars, resVars, logVars, mirrorDirs, cacheDirs, runErr,
                 monVars, fnVars>>

StartDownloadMonitor == MonCall("dl_mon_start", "download", "start", "dl_exec")

ExitCauses == {<<"exit status 1">>}

\* What the command had written to its stdout and stderr when it exited.
Outputs == {[stdout |-> "", stderr |-> ""], [stdout |-> "out", stderr |-> "boom"]}

\* fmt.Errorf("oc-mirror command failed: %w\nStdout: %s\nStderr: %s", err,
\* stdout, stderr): the two outputs follow the cause, each a segment of its own
\* (set off by a line break where the other segments are by a colon).
WaitError(err, o) ==
  Errorf("oc-mirror command failed", err)
    \o <<"Stdout: " \o o.stdout, "Stderr: " \o o.stderr>>

\* execCmd.Process.Pid of the n-th child spawned: every child has its own.
ChildPid(n) == 1000 + n

\* No child: execCmd.Start failed.
NoPid == 0

OnStartAlways(spawned, child) == <<child>>

\* The calls of onStart, each with its argument: one, after a successful
\* execCmd.Start, none when Start failed and the function returned.
OnStartCalls(spawned, child) == IF spawned THEN <<child>> ELSE <<>>

\* ExecuteWithCallback up to the callback: the process starts and the callback
\* starts the phase's resource monitor, or the process cannot be started.
ExecStart(from, phase, resMon, to, toStops) ==
  /\ rpc = from
  /\ \/ /\ cmds' = Append(cmds, [version |-> version, iteration |-> iter + 1,
                                phase |-> phase, outcome |-> "running",
                                pid |-> ChildPid(Len(cmds) + 1),
                                onStart |-> OnStartCalls(TRUE, ChildPid(Len(cmds) + 1))])
        /\ mons' = [mons EXCEPT ![Cur].m[resMon] = MonStart(@)]
        /\ rpc' = to
        /\ UNCHANGED <<cmdErr, errs>>
     \/ \E c \in Causes :
          /\ cmds' = Append(cmds, [version |-> version, iteration |-> iter + 1,
                                  phase |-> phase, outcome |-> "failed",
                                  pid |-> NoPid,
                                  onStart |-> OnStartCalls(FALSE, NoPid)])
          /\ cmdErr' = Errorf("failed to start oc-mirror", c)
          /\ errs' = LogErr(phase, c)
          /\ rpc' = toStops
          /\ UNCHANGED mons
  /\ UNCHANGED <<cfgVars, loopVars, resVars, cleans, comparisons, saves, mirrorDirs,
                 cacheDirs, runErr,
                 monVars, fnVars>>

\* The directories after iteration n's download wrote into that of version v.
Written(dirs, v, n) == [dirs EXCEPT ![v] = @ \cup {n}]

\* Whether the version's commands are given --cache-dir operators-<version>.
UsesCacheDir(v) == v = "v2"

\* ExecuteWithCallback from execCmd.Wait on: the command exits.  What the
\* download command mirrored is in the version's mirror directory by then.
ExecWait(from, phase, to) ==
  /\ rpc = from
  /\ \/ /\ cmds' = [cmds EXCEPT ![Len(cmds)].outcome = "ok"]
        /\ UNCHANGED <<cmdErr, errs>>
     \/ \E c \in ExitCauses, o \in Outputs :
          /\ cmds' = [cmds EXCEPT ![Len(cmds)].outcome = "failed"]
          /\ cmdErr' = WaitError(c, o)
          /\ errs' = LogErr(phase, c)
  /\ rpc' = to
  /\ mirrorDirs' = IF phase = "download" THEN Written(mirrorDirs, version, iter + 1)
                   ELSE mirrorDirs
  /\ cacheDirs' = IF UsesCacheDir(version) THEN Written(cacheDirs, version, iter + 1)
                  ELSE cacheDirs
  /\ UNCHANGED <<cfgVars, loopVars, resVars, cleans, comparisons, saves, runErr, mons,
                 monVars, fnVars>>

\* What runIteration's result holds once a phase has returned: the phase's
\* metrics are assigned to it after the error check, so only on success.
ResultAfterPhaseAlways(result, metrics, failed) == result \cup metrics
ResultAfterPhase(result, metrics, failed) ==
  IF failed THEN result ELSE result \cup metrics

\* The phase stops its resource monitor (started or not), puts the aggregates
\* into its metrics and returns them, with the error if there is one.
PhaseReturn(from, resMon, msg, toOk, toFailed) ==
  /\ rpc = from
  /\ LET metrics == mons[Cur].metrics \cup {resMon}
         failed == cmdErr # NilError
     IN mons' = [mons EXCEPT ![Cur].m[resMon] = MonStop(@),
                             ![Cur].metrics = metrics,
                             ![Cur].phaseOut = Returned(failed, metrics),
                             ![Cur].result = ResultAfterPhase(@, metrics, failed)]
  /\ IF cmdErr = NilError
     THEN /\ rpc' = toOk
          /\ UNCHANGED cmdErr
     ELSE /\ rpc' = toFailed
          /\ cmdErr' = Errorf(msg, cmdErr)
  /\ UNCHANGED <<cfgVars, loopVars, resVars, logVars, mirrorDirs, cacheDirs, runErr, errs,
                 monVars, fnVars>>

\* runIteration's error branch, second Stop: the iteration returns its
\* result as it stands, and the error.
IterationAborts(from, msg) ==
  /\ rpc = from
  /\ mons' = [mons EXCEPT ![Cur].m["overallResource"] = MonStop(@),
                          ![Cur].iterOut = Returned(TRUE, mons[Cur].result)]
  /\ IterationFails(Errorf(msg, cmdErr))
  /\ UNCHANGED <<cfgVars, loopVars, resVars, logVars, mirrorDirs, cacheDirs, cmdErr, errs,
                 monVars, fnVars>>

DownloadExecStart == ExecStart("dl_exec", "download", "downloadResource", "dl_wait", "dl_stop_dl")

DownloadExecWait == ExecWait("dl_wait", "download", "dl_stop_dl")

\* DownloadMonitor.Stop closes the progress channel and waits; a sampling loop
\* that copied the channel before may send on it after: the send panics and the
\* program ends, Run not having returned.
StopPanics(from, name) ==
  /\ rpc = from
  /\ mons' = [mons EXCEPT ![Cur].m[name] = MonStop(@)]
  /\ rpc' = "crashed"
  /\ UNCHANGED <<cfgVars, loopVars, resVars, logVars, mirrorDirs, cacheDirs, cmdErr,
                 runErr, errs, monVars, fnVars>>

StopDownloadMonitor ==
  \/ MonCall("dl_stop_dl", "download", "stop", "dl_stop_res")
  \/ StopPanics("dl_stop_dl", "download")

DownloadPhaseReturn ==
  PhaseReturn("dl_stop_res", "downloadResource", "oc-mirror download failed",
              "up_net_start", "dl_failed")

DownloadFailedStopNetwork == MonCall("dl_failed", "network", "stop", "dl_failed2")

DownloadFailedReturn == IterationAborts("dl_failed2", "download phase failed")

StopNetworkMonitorFirst == MonCall("up_net_start", "network", "stop", "net_stop")

StartUploadNetworkMonitor == MonCall("up_net_start", "uploadNetwork", "start", "net_stop")

StopNetworkMonitor == MonCall("net_stop", "network", "stop", "up_cfg")

\* runUploadPhase: metrics := PhaseMetrics{}; v1 writes the platform config
\* before the command is built.
CreatePlatformConfig ==
  /\ rpc = "up_cfg"
  /\ \/ /\ rpc' = "up_exec"
        /\ mons' = [mons EXCEPT ![Cur].metrics = {}, ![Cur].phaseOut = NotReturnedYet]
        /\ UNCHANGED <<cmdErr, errs>>
     \/ /\ version = "v1"
        /\ \E c \in Causes :
             /\ cmdErr' = Errorf("failed to create platform config", c)
             /\ errs' = LogErr("upload", c)
             /\ mons' = [mons EXCEPT ![Cur].metrics = {},
                                     ![Cur].phaseOut = Returned(TRUE, {})]
             /\ rpc' = "up_failed"
  /\ UNCHANGED <<cfgVars, loopVars, resVars, logVars, mirrorDirs, cacheDirs, runErr,
                 monVars, fnVars>>

UploadExecStart == ExecStart("up_exec", "upload", "uploadResource", "up_wait", "up_stop_res")

UploadExecWait == ExecWait("up_wait", "upload", "up_stop_res")

UploadPhaseReturn ==
  PhaseReturn("up_stop_res", "uploadResource", "oc-mirror upload failed",
              "upnet_stop", "up_failed")

UploadFailedStopNetwork == MonCall("up_failed", "uploadNetwork", "stop", "up_failed2")

UploadFailedReturn == IterationAborts("up_failed2", "upload phase failed")

StopUploadNetworkMonitor == MonCall("upnet_stop", "uploadNetwork", "stop", "overall_stop")

StopOverallResourceMonitor == MonCall("overall_stop", "overallResource", "stop", "analyze")

\* runIteration returns its result; the group loop appends it and steps i.
IterationReturns ==
  /\ rpc = "analyze"
  /\ LET r == TestResult(iter + 1, isCleanRun, version) IN
       IF ~compareV1V2
       THEN /\ results' = Append(results, r)
            /\ UNCHANGED <<v1Results, v2Results>>
       ELSE IF version = "v1"
       THEN /\ v1Results' = Append(v1Results, r)
            /\ UNCHANGED <<results, v2Results>>
       ELSE /\ v2Results' = Append(v2Results, r)
            /\ UNCHANGED <<results, v1Results>>
  /\ mons' = [mons EXCEPT ![Cur].iterOut = Returned(FALSE, mons[Cur].result)]
  /\ iter' = iter + 1
  /\ rpc' = "loop"
  /\ UNCHANGED <<cfgVars, version, isCleanRun, logVars, mirrorDirs, cacheDirs, cmdErr, runErr, errs,
                 monVars, fnVars>>

\* The runIteration calls made so far for a version group.
IterationsBegun(v) == Cardinality({k \in DOMAIN mons : mons[k].version = v})

\* runV1V2Comparison between the groups: cleanWorkspace.
CleanWorkspace ==
  /\ rpc = "cleanws"
  /\ \/ /\ cleans' = Append(cleans, [ok |-> TRUE, v1Done |-> Len(v1Results),
                                     v2Begun |-> IterationsBegun("v2")])
        /\ mirrorDirs' = Wiped(mirrorDirs, {"v1", "v2"})
        /\ rpc' = "nextgroup"
        /\ UNCHANGED <<runErr, errs>>
     \/ \E c \in Causes, removed \in {{}, {"v1"}, {"v1", "v2"}} :
          /\ cleans' = Append(cleans, [ok |-> FALSE, v1Done |-> Len(v1Results),
                                       v2Begun |-> IterationsBegun("v2")])
          /\ mirrorDirs' = Wiped(mirrorDirs, removed)
          /\ runErr' = Errorf("failed to clean workspace for v2", c)
          /\ errs' = Append(errs, [version |-> "none", iteration |-> 0,
                                   phase |-> "cleanws", err |-> c])
          /\ rpc' = "returned"
  /\ UNCHANGED <<cfgVars, loopVars, resVars, cmds, comparisons, saves, cacheDirs, cmdErr,
                 mons, monVars, fnVars>>

\* runV1V2Comparison enters the v2 loop.
NextGroup ==
  /\ rpc = "nextgroup"
  /\ version' = "v2"
  /\ iter' = 0
  /\ rpc' = "loop"
  /\ UNCHANGED <<cfgVars, isCleanRun, resVars, logVars, mirrorDirs, cacheDirs, cmdErr,
                 runErr, mons, errs,
                 monVars, fnVars>>

\* runV1V2Comparison after both groups: store all results, compareV1VsV2.
StoreAndCompare ==
  /\ rpc = "store"
  /\ results' = StoreResults(v1Results, v2Results)
  /\ comparisons' = IF Len(v1Results) = 0 \/ Len(v2Results) = 0
                    THEN comparisons
                    ELSE Append(comparisons, "v1-vs-v2")
  /\ rpc' = "save"
  /\ UNCHANGED <<cfgVars, loopVars, v1Results, v2Results, cmds, cleans, saves, mirrorDirs,
                 cacheDirs,
                 cmdErr, runErr, mons, errs, monVars, fnVars>>

\* runStandardTest after the loop: compareCleanVsCached.
CompareCleanVsCached ==
  /\ rpc = "compare"
  /\ comparisons' = IF Len(results) < 2
                    THEN comparisons
                    ELSE Append(comparisons, "clean-vs-cached")
  /\ rpc' = "save"
  /\ UNCHANGED <<cfgVars, loopVars, resVars, cmds, cleans, saves, mirrorDirs, cacheDirs, cmdErr,
                 runErr, mons, errs, monVars, fnVars>>

SaveErrorSwallowed(err) == NilError

\* What Run returns after saveResults returned err.
SaveError(err) ==
  IF err = NilError THEN NilError ELSE Errorf("failed to save results", err)

\* saveResults, then Run returns.
SaveResults ==
  /\ rpc = "save"
  /\ \/ /\ saves' = Append(saves, [ok |-> TRUE, n |-> Len(results)])
        /\ runErr' = SaveError(NilError)
        /\ UNCHANGED errs
     \/ \E c \in Causes :
          /\ saves' = Append(saves, [ok |-> FALSE, n |-> Len(results)])
          /\ runErr' = SaveError(c)
          /\ errs' = Append(errs, [version |-> "none", iteration |-> 0,
                                   phase |-> "save", err |-> c])
  /\ rpc' = "returned"
  /\ UNCHANGED <<cfgVars, loopVars, resVars, cmds, cleans, comparisons, mirrorDirs, cacheDirs,
                 cmdErr, mons, monVars, fnVars>>

\* The monitor of the other specification, never used here.
MonitorIdle ==
  /\ kind = "resource"
  /\ pid = OwnPid
  /\ pollInterval = PollDefault
  /\ showProgress = TRUE
  /\ now = ZeroTime + 1
  /\ env = 0
  /\ monitoring = FALSE
  /\ startTime = ZeroTime
  /\ stopTime = ZeroTime
  /\ samples = <<>>
  /\ initialBytes = 0
  /\ progressChan = NoChan
  /\ chans = <<>>
  /\ loops = <<>>
  /\ callerPc = "idle"
  /\ stopDeadline = ZeroTime
  /\ returned = NoMetrics
  /\ lastOp = "none"
  /\ startResult = "none"
  /\ accesses = {}
  /\ sendOnClosed = FALSE
  /\ nCalls = 0
  /\ ticks = 0

\* What an earlier run of the program left in a mirror directory.
StaleOutput == 0

\* main: the configuration, NewTestRunner, and Run about to be called.
InitRun ==
  /\ FnIdle
  /\ cfgIterations \in 1..MaxIterations
  /\ compareV1V2 \in BOOLEAN
  /\ iterations = NewTestRunnerIterations(cfgIterations)
  /\ rpc = "run"
  /\ version = "v2"
  /\ iter = 0
  /\ isCleanRun = FALSE
  /\ cmdErr = NilError
  /\ mirrorDirs \in [{"v1", "v2"} -> {{}, {StaleOutput}}]
  /\ cacheDirs \in [{"v1", "v2"} -> {{}, {StaleOutput}}]
  /\ results = <<>>
  /\ v1Results = <<>>
  /\ v2Results = <<>>
  /\ runErr = NotReturned
  /\ mons = <<>>
  /\ cmds = <<>>
  /\ cleans = <<>>
  /\ comparisons = <<>>
  /\ saves = <<>>
  /\ errs = <<>>
  /\ MonitorIdle

NextRun ==
  \/ RunSetup
  \/ LoopHead
  \/ CleanWorkspaceForVersion
  \/ StartNetworkMonitor
  \/ StartOverallResourceMonitor
  \/ EnsureMirrorDir
  \/ StartDownloadMonitor
  \/ DownloadExecStart
  \/ DownloadExecWait
  \/ StopDownloadMonitor
  \/ DownloadPhaseReturn
  \/ DownloadFailedStopNetwork
  \/ DownloadFailedReturn
  \/ StartUploadNetworkMonitor
  \/ StopNetworkMonitor
  \/ CreatePlatformConfig
  \/ UploadExecStart
  \/ UploadExecWait
  \/ UploadPhaseReturn
  \/ UploadFailedStopNetwork
  \/ UploadFailedReturn
  \/ StopUploadNetworkMonitor
  \/ StopOverallResourceMonitor
  \/ IterationReturns
  \/ CleanWorkspace
  \/ NextGroup
  \/ StoreAndCompare
  \/ CompareCleanVsCached
  \/ SaveResults

SpecRun == InitRun /\ [][NextRun]_vars

\* The steps of Run that are its own: all but those that wait, with no timeout,
\* for a child process to exit: the two waits for the mirroring command, the end
\* of runIteration (DescribeMirror runs oc-mirror describe) and the making of
\* the two network monitors (getDefaultInterface runs ip route).
RunSteps ==
  /\ NextRun
  /\ ~DownloadExecWait
  /\ ~UploadExecWait
  /\ ~IterationReturns
  /\ ~StartNetworkMonitor
  /\ ~StartUploadNetworkMonitor

\* Run is one sequential task: as long as it has a next step of its own it
\* takes it.  Nothing makes a child process exit.
SpecRunFair == SpecRun /\ WF_vars(RunSteps)


(***************************************************************************)
(* compareCleanVsCached (pkg/runner), on its own: tr.results is any        *)
(* sequence of up to MaxResults results; of a result only the four figures *)
(* the comparison reads are kept.  Wall times are in the clock's unit.     *)
(***************************************************************************)
WallTimes == {0, 67, 160}
Counts == {0, 1}

CompareInputs ==
  [downloadTime : WallTimes, uploadTime : WallTimes,
   bytesUploaded : Counts, cacheHits : Counts]

SeqsUpTo(S, n) == UNION {[1..k -> S] : k \in 0..n}

\* The sum of field f over rs[i..], as the range loop accumulates it.
RECURSIVE SumFrom(_, _, _)
SumFrom(rs, f, i) ==
  IF i > Len(rs) THEN 0 ELSE rs[i][f] + SumFrom(rs, f, i + 1)

AverageUndivided(sum, n) == sum

\* avg /= len(cachedResults): integer division, skipped when there is none.
Average(sum, n) == IF n > 0 THEN sum \div n ELSE sum

\* 2^s modulo m.
RECURSIVE Pow2Mod(_, _)
Pow2Mod(s, m) == IF s = 0 THEN 1 % m ELSE (2 * Pow2Mod(s - 1, m)) % m

\* 2^k.
RECURSIVE Pow2(_)
Pow2(k) == IF k = 0 THEN 1 ELSE 2 * Pow2(k - 1)

\* The binary exponent of the float64 nearest n / d (n, d > 0): the integer
\* part of its logarithm to base 2.
RECURSIVE FloorLog2(_, _)
FloorLog2(n, d) ==
  IF n >= 2 * d THEN 1 + FloorLog2(n, 2 * d)
  ELSE IF n < d THEN FloorLog2(2 * n, d) - 1
  ELSE 0

\* float64(n) / float64(d): where the quotient, rounded to the 53 bits of a
\* float64 (ties to the even mantissa), lies against n / d, as the numerator
\* of a fraction of d, in units of the quotient's last place.
QuotientError(n, d) ==
  LET s == 52 - FloorLog2(n, d)
      P == ((n % d) * Pow2Mod(s, d)) % d
      odd == ((n % (2 * d)) * Pow2Mod(s, 2 * d)) % (2 * d) >= d
  IN CASE P = 0 -> 0
       [] 2 * P < d -> 0 - P
       [] 2 * P > d -> d - P
       [] OTHER -> IF odd THEN d - P ELSE 0 - P

\* n / d * 100 is exactly j + 1/2 hundredths, that is (2j + 1) / 200: where the
\* float64 the code computes, the rounded quotient times 100, rounded again,
\* lies against it: 1 above, -1 below, 0 on it.
TieSide(n, d, j) ==
  LET c == QuotientError(n, d)
      et == FloorLog2(2 * j + 1, 200)
      k == et - FloorLog2(n, d)
      Fn == (((2 * j + 1) % 200) * Pow2Mod(52 - et, 200)) % 200
      Iodd == (((2 * j + 1) % 400) * Pow2Mod(52 - et, 400)) % 400 >= 200
      half == 100 * d * Pow2(k)
      off == 20000 * (IF c < 0 THEN 0 - c ELSE c)
      side == IF c > 0 THEN 1 ELSE -1
  IN CASE Fn = 0 /\ c < 0 /\ 2 * j + 1 = 25 ->
            \* Below 0.125, a power of two, float64s are twice as dense.
            IF 2 * off > half THEN -1 ELSE 0
       [] Fn = 0 ->
            IF off < half THEN 0
            ELSE IF off > half THEN side
            ELSE IF Iodd THEN side ELSE 0
       [] OTHER ->
            LET lhs == Fn * d * Pow2(k) + 20000 * c
            IN IF lhs > half THEN 1
               ELSE IF lhs < half THEN -1
               ELSE IF Iodd THEN 1 ELSE -1

\* The hundredths "%.2f" prints of float64(n) / float64(d) * 100 (n >= 0,
\* d > 0): the nearest to the float64, and of two equally near the even one.
\* Only where n / d * 100 is midway between two hundredths does the float64's
\* rounding decide.
RoundDiv(n, d) ==
  LET q == (n * 10000) \div d
      r == (n * 10000) % d
  IN CASE 2 * r > d -> q + 1
       [] 2 * r < d -> q
       [] OTHER ->
            LET side == TieSide(n, d, q)
            IN IF side > 0 THEN q + 1
               ELSE IF side < 0 THEN q
               ELSE IF q % 2 = 0 THEN q ELSE q + 1

\* No "Improvement:" line.
NoImprovement == [kind |-> "none", hundredths |-> 0, minus |-> FALSE]

\* float64(clean-cached) / float64(clean) * 100 as "%.2f" prints it: hundredths
\* of a percent and the sign in front of them (a negative value that rounds to
\* zero prints as "-0.00"), or what a floating-point division by zero gives.
Improvement(clean, cached) ==
  LET diff == clean - cached
      abs == IF diff < 0 THEN 0 - diff ELSE diff
  IN CASE clean # 0 ->
            [kind |-> "number", hundredths |-> RoundDiv(abs, clean),
             minus |-> diff < 0]
       [] diff = 0 -> [kind |-> "NaN", hundredths |-> 0, minus |-> FALSE]
       [] diff < 0 -> [kind |-> "-Inf", hundredths |-> 0, minus |-> TRUE]
       [] OTHER -> [kind |-> "+Inf", hundredths |-> 0, minus |-> FALSE]

ShowsImprovementAlways(cached) == TRUE

\* if avgCachedDownloadTime > 0 { ... "Improvement" ... }
ShowsImprovement(cached) == cached > 0

\* The three lines of a wall time: Clean, Cached and, guarded, Improvement.
TimeLines(clean, cached) ==
  [clean |-> clean, cached |-> cached,
   improvement |-> IF ShowsImprovement(cached) THEN Improvement(clean, cached)
                   ELSE NoImprovement]

\* The two lines of Cache Hits and of Bytes Uploaded: Clean and Cached.
CountLines(clean, cached) ==
  [clean |-> clean, cached |-> cached, improvement |-> NoImprovement]

\* Nothing printed: fewer than two results.
NoOutput ==
  [called |-> TRUE, printed |-> FALSE,
   downloadTime |-> CountLines(0, 0), uploadTime |-> CountLines(0, 0),
   cacheHits |-> CountLines(0, 0), bytesUploaded |-> CountLines(0, 0)]

compareCleanVsCached(rs) ==
  IF Len(rs) < 2 THEN NoOutput
  ELSE
    LET cleanResult == rs[1]
        n == Len(rs) - 1
        avg(f) == Average(SumFrom(rs, f, 2), n)
    IN [called |-> TRUE, printed |-> TRUE,
        downloadTime |-> TimeLines(cleanResult.downloadTime, avg("downloadTime")),
        uploadTime |-> TimeLines(cleanResult.uploadTime, avg("uploadTime")),
        cacheHits |-> CountLines(cleanResult.cacheHits, avg("cacheHits")),
        bytesUploaded |-> CountLines(cleanResult.bytesUploaded, avg("bytesUploaded"))]

InitCompare ==
  /\ cmpResults \in SeqsUpTo(CompareInputs, MaxResults)
  /\ cmpReport = NotCalled
  /\ outDirs = <<>>
  /\ resultsChan = <<>>
  /\ outResult = NotCalled
  /\ progress = NoProgress
  /\ RunIdle
  /\ MonitorIdle

CallCompareCleanVsCached ==
  /\ ~cmpReport.called
  /\ cmpReport' = compareCleanVsCached(cmpResults)
  /\ UNCHANGED <<cmpResults, outDirs, resultsChan, outResult, progress, monVars, runVars>>

NextCompare == CallCompareCleanVsCached

SpecCompare == InitCompare /\ [][NextCompare]_vars

(***************************************************************************)
(* Claims about the monitors.                                              *)
(***************************************************************************)

\* C1: while a session is running the number of samples never decreases, and
\* once Stop has returned (and Start is not called again) no sample is
\* appended any more.
C1_SamplesFrozenAfterStop ==
  [][/\ (monitoring /\ monitoring') => Len(samples') >= Len(samples)
     /\ (lastOp = "stop" /\ lastOp' = "stop") => samples' = samples]_vars

\* C2: a second Stop with no Start in between returns the aggregate the first
\* Stop returned: once a Stop has returned, what Stop returns changes only
\* when Start begins a new session.
C2_StopTwiceSameAggregate ==
  [][(returned # NoMetrics /\ returned' # returned) => returned' = NoMetrics]_vars

\* C3: a progress channel is closed at most once and the sampling loop never
\* sends on a closed channel.
C3_ChannelClosedOnceNoSendAfter ==
  /\ ~sendOnClosed
  /\ \A c \in DOMAIN chans : chans[c].closes <= 1

\* Two accesses race when one is the owner's and one a loop goroutine's that
\* had been spawned before it, both touch the same variable, and one writes.
Races(a, b) ==
  /\ a.t = "caller" /\ b.t = "loop"
  /\ b.n <= a.n
  /\ a.v = b.v
  /\ a.w \/ b.w

\* C4: every access to the running flag and to the samples is made under the
\* monitor's lock, so no two tasks access them without synchronisation.
C4_AllAccessUnderLock ==
  LET unlocked == {a \in accesses : a.v \in {"flag", "samples"}}
  IN /\ unlocked = {}
     /\ ~ \E a, b \in unlocked : Races(a, b)

(***************************************************************************)
(* Claims about the orchestrator.                                          *)
(***************************************************************************)
\* The positions of Run that lie inside a runIteration call.
IterationPcs ==
  {"it_clean", "it_net_start", "it_overall_start", "dl_mkdir", "dl_mon_start",
   "dl_exec", "dl_wait", "dl_stop_dl", "dl_stop_res", "dl_failed", "dl_failed2",
   "up_net_start", "net_stop", "up_cfg", "up_exec", "up_wait", "up_stop_res",
   "up_failed", "up_failed2", "upnet_stop", "overall_stop", "analyze", "crashed"}

\* The runIteration calls that have returned, given the log and Run's position.
ReturnedIterations(ms, pc) ==
  {k \in DOMAIN ms : k < Len(ms) \/ pc \notin IterationPcs}

IsError(e) == e # NilError /\ e # NotReturned

\* C5: when a runIteration call has returned, on whichever path, every monitor
\* it started has had Stop called exactly once (and no monitor is ever stopped
\* twice); nothing that happens later touches the monitors of an earlier call.
C5_StartedMonitorsStoppedOnce ==
  [][/\ \A k \in DOMAIN mons' : \A n \in MonitorNames :
          /\ mons'[k].m[n].starts <= 1
          /\ mons'[k].m[n].stops <= 1
          /\ (k \in ReturnedIterations(mons', rpc') /\ mons'[k].m[n].starts > 0)
                => mons'[k].m[n].stops = 1
     /\ \A k \in DOMAIN mons :
          k < Len(mons) => (k \in DOMAIN mons' /\ mons'[k] = mons[k])]_vars

\* Run returned an error from the upload phase of its second iteration; the
\* first iteration's six monitors were each started and stopped once.
C5_Witness ==
  /\ rpc = "returned"
  /\ IsError(runErr)
  /\ Len(mons) = 2
  /\ \A n \in MonitorNames : mons[1].m[n].starts = 1 /\ mons[1].m[n].stops = 1
  /\ mons[2].m["uploadResource"].starts = 1
  /\ mons[2].m["uploadResource"].stops = 1
  /\ mons[2].m["overallResource"].stops = 1

CommandFailed == \E k \in DOMAIN cmds : cmds[k].outcome = "failed"

\* C6: once a mirroring command has failed, no further command is executed (no
\* retry, no later phase), no further iteration and no second version group is
\* started, no comparison is produced, nothing is saved, and Run ends up
\* returning an error.
C6_NoCommandAfterFailure ==
  /\ [][CommandFailed =>
          /\ cmds' = cmds
          /\ Len(mons') = Len(mons)
          /\ version' = version
          /\ cleans' = cleans
          /\ comparisons' = <<>>
          /\ saves' = <<>>
          /\ (rpc' = "returned" => IsError(runErr'))]_vars
  /\ (CommandFailed ~> (rpc = "returned" /\ IsError(runErr)))

\* In comparison mode a command of the first v1 iteration failed and Run has
\* returned: the v2 group and the later v1 iterations never began.
C6_Witness ==
  /\ rpc = "returned"
  /\ compareV1V2
  /\ CommandFailed
  /\ Len(cmds) = 2
  /\ Len(mons) = 1
  /\ iterations = 3

\* The error e wraps the error cause: the segments of cause are among e's.
Wraps(e, cause) ==
  \E i \in 1..(Len(e) - Len(cause) + 1) : SubSeq(e, i, i + Len(cause) - 1) = cause

PhaseFailed == errs # <<>> /\ errs[1].phase \in {"download", "upload"}

\* C7: when a phase failed, the error Run returns is built from the first (and
\* only) error met: it carries the number of the iteration that was running,
\* the phase that failed, and that error's cause.
C7_ErrorNamesIterationAndPhase ==
  (rpc = "returned" /\ PhaseFailed) =>
     /\ Len(errs) = 1
     /\ IsError(runErr)
     /\ runErr[2] = Itoa(IterationsBegun(errs[1].version))
     /\ runErr[3] = "failed"
     /\ runErr[4] = errs[1].phase \o " phase failed"
     /\ Wraps(runErr, errs[1].err)

\* The upload command of iteration 2 of a standard run exited with an error.
C7_Witness ==
  runErr = <<"iteration", "2", "failed", "upload phase failed",
             "oc-mirror upload failed", "oc-mirror command failed", "exit status 1",
             "Stdout: out", "Stderr: boom">>

\* Both loops of Run are over and no iteration failed.
AllIterationsSucceeded ==
  \/ rpc \in {"compare", "save"}
  \/ rpc = "returned" /\ saves # <<>>

\* C8: in a standard run whose iterations all succeeded, tr.results holds N
\* results (N the runner's iteration count), numbered 1..N in order, the first
\* marked clean and all the others cached.
C8_StandardResults ==
  (~compareV1V2 /\ AllIterationsSucceeded) =>
     results = [k \in 1..iterations |-> TestResult(k, k = 1, "v2")]

\* A standard run of three iterations has returned without error.
C8_Witness ==
  /\ ~compareV1V2
  /\ rpc = "returned"
  /\ runErr = NilError
  /\ iterations = 3
  /\ Len(results) = 3

\* C9: in comparison mode, when all iterations succeeded and the results are
\* stored, tr.results holds 2N results: v1's N, then v2's N, each group
\* numbered 1..N with only its first result marked clean.
C9_ComparisonResults ==
  (compareV1V2 /\ (rpc = "save" \/ (rpc = "returned" /\ saves # <<>>))) =>
     results = [k \in 1..(2 * iterations) |->
                  IF k <= iterations
                  THEN TestResult(k, k = 1, "v1")
                  ELSE TestResult(k - iterations, k - iterations = 1, "v2")]

\* A comparison run of three iterations per group has returned without error.
C9_Witness ==
  /\ compareV1V2
  /\ rpc = "returned"
  /\ runErr = NilError
  /\ iterations = 3
  /\ Len(results) = 6

\* C10: in comparison mode cleanWorkspace is called at most once; when it is
\* called all v1 iterations have returned their results and no v2 iteration has
\* begun; a v2 iteration begins only after exactly one successful clean; and
\* when the clean fails Run returns an error with no v2 iteration begun.
C10_CleanOnceBetweenGroups ==
  compareV1V2 =>
     /\ Len(cleans) <= 1
     /\ \A k \in DOMAIN cleans :
          /\ cleans[k].v1Done = iterations
          /\ cleans[k].v2Begun = 0
          /\ ~cleans[k].ok =>
               /\ rpc = "returned"
               /\ IsError(runErr)
               /\ IterationsBegun("v2") = 0
     /\ IterationsBegun("v2") > 0 =>
          /\ Len(cleans) = 1
          /\ cleans[1].ok
          /\ Len(v1Results) = iterations

\* The first v2 iteration is running after the one successful clean.
C10_Witness ==
  /\ compareV1V2
  /\ Len(cleans) = 1
  /\ cleans[1].ok
  /\ IterationsBegun("v2") = 1
  /\ rpc = "dl_wait"

Ran(cmp) == \E k \in DOMAIN comparisons : comparisons[k] = cmp

\* The iterations that have completed successfully.
CompletedIterations ==
  IF compareV1V2 THEN Len(v1Results) + Len(v2Results) ELSE Len(results)

\* C11: when saving begins with at least two iterations completed, the
\* clean-vs-cached comparison has been run, in either mode, and in comparison
\* mode the v1-vs-v2 comparison has been run as well.
C11_ComparisonsBeforeSave ==
  (rpc = "save" /\ CompletedIterations >= 2) =>
     /\ Ran("clean-vs-cached")
     /\ compareV1V2 => Ran("v1-vs-v2")

\* Both loops of Run ran to their end: every iteration returned a result.
EveryIterationSucceeded ==
  IF compareV1V2
  THEN Len(v1Results) = iterations /\ Len(v2Results) = iterations
  ELSE Len(results) = iterations

\* C12: saveResults is never called twice and only after every iteration
\* succeeded; when every iteration succeeded and Run has returned, it was called
\* exactly once (comparison or not) and Run's result is an error exactly when
\* that save failed.
C12_SaveOnceErrorIffSaveFails ==
  /\ Len(saves) <= 1
  /\ saves # <<>> => EveryIterationSucceeded
  /\ (rpc = "returned" /\ EveryIterationSucceeded) =>
        /\ Len(saves) = 1
        /\ IsError(runErr) <=> ~saves[1].ok
        /\ ~IsError(runErr) => runErr = NilError

\* Every iteration of a comparison run succeeded and the save failed.
C12_Witness ==
  /\ rpc = "returned"
  /\ compareV1V2
  /\ Len(v2Results) = iterations
  /\ Len(saves) = 1
  /\ ~saves[1].ok
  /\ runErr = <<"failed to save results", "permission denied">>

SetupFailed == errs # <<>> /\ errs[1].phase = "setup"

\* C13: when setup failed Run has returned an error and no iteration was ever
\* started: no runIteration call (so no workspace wipe and no monitor), no
\* workspace clean, no mirroring command, no result, no comparison, no save.
C13_SetupFailureStartsNothing ==
  SetupFailed =>
     /\ rpc = "returned"
     /\ IsError(runErr)
     /\ runErr[Len(runErr)] = errs[1].err[1]
     /\ mons = <<>>
     /\ cmds = <<>>
     /\ cleans = <<>>
     /\ results = <<>>
     /\ comparisons = <<>>
     /\ saves = <<>>

\* The v2 imageset-config file could not be written.
C13_Witness ==
  /\ rpc = "returned"
  /\ runErr = <<"failed to create v2 imageset-config", "permission denied">>
  /\ mons = <<>>

\* The download phase of runIteration call k returned an error.
DownloadPhaseFailed(k) ==
  \E e \in DOMAIN errs :
     /\ errs[e].phase = "download"
     /\ errs[e].version = mons[k].version
     /\ errs[e].iteration = mons[k].iteration

\* C14: in an iteration whose download phase does not fail, the download
\* phase's network monitor is stopped only once the upload phase's network
\* monitor has been started, and from the Start of the first to the Stop of the
\* second at least one of the two is running.
C14_NetworkMonitorsOverlap ==
  \A k \in DOMAIN mons :
     LET net == mons[k].m["network"]
         up == mons[k].m["uploadNetwork"]
     IN ~DownloadPhaseFailed(k) =>
          /\ net.stops > 0 => up.starts > 0
          /\ (net.starts > 0 /\ up.stops = 0) => (net.monitoring \/ up.monitoring)

\* The hand-over has happened: the first network monitor is stopped, the
\* second one is running and the upload command is about to be executed.
C14_Witness ==
  /\ rpc = "up_exec"
  /\ mons[Cur].m["network"].stops = 1
  /\ ~mons[Cur].m["network"].monitoring
  /\ mons[Cur].m["uploadNetwork"].monitoring

(***************************************************************************)
(* Further claims about the monitors.                                      *)
(***************************************************************************)
\* C15: Stop on a monitor on which Start was never called returns the all-zero
\* aggregate: zero duration, zero totals and rates, no samples.
C15_StopNeverStartedIsZero ==
  (startResult = "none" /\ lastOp = "stop") => returned = EmptyMetrics(kind)

\* A step that is a call of Start returning to its caller.
StartStep ==
  /\ nCalls' = nCalls + 1
  /\ lastOp' = "start"
  /\ callerPc' = "idle"

\* C16: Start on a running monitor spawns no goroutine and leaves the flag,
\* startTime and the samples as they are; it returns nil for the resource,
\* download and disk-write monitors and the 'already started' error for the
\* network and registry monitors.
C16_StartOnRunningIsNoOp ==
  [][(monitoring /\ StartStep) =>
        /\ loops' = loops
        /\ monitoring'
        /\ startTime' = startTime
        /\ samples' = samples
        /\ startResult' = IF kind \in {"network", "registry"} THEN "already" ELSE "ok"]_vars

\* A running registry monitor that holds a sample was started again.
C16_Witness ==
  /\ kind = "registry"
  /\ lastOp = "start"
  /\ startResult = "already"
  /\ monitoring
  /\ Len(loops) = 1
  /\ Len(samples) >= 1

\* A step in which Stop, called on a session that was started, returns.
StopReturnStep ==
  /\ callerPc = "stopping"
  /\ callerPc' = "idle"
  /\ startResult # "none"

\* C17: the aggregate Stop returns holds as many samples as ticks were
\* delivered while the session was running.
C17_OneSamplePerTick ==
  [][StopReturnStep => Len(returned'.samples) = ticks]_vars

\* C18: when Stop returns with no sample taken, a rate-reporting monitor
\* returns no samples and an average rate of (final - initial) / duration when
\* the duration is positive (initial being the baseline Start captured) and of
\* zero when the duration is zero.
C18_FallbackRateWithoutSamples ==
  [][(StopReturnStep /\ samples = <<>> /\ kind \in {"download", "registry", "diskwrite"}) =>
        /\ returned'.samples = <<>>
        /\ returned'.duration = 0 => returned'.avg = 0
        /\ (returned'.duration > 0 /\ CapturesBaseline(kind)) =>
              returned'.avg = Rate(env - initialBytes, returned'.duration)]_vars

\* C19: the total the download monitor's Stop returns is the directory size
\* read when Stop computes its result minus the size captured at Start, and is
\* not negative.
C19_DownloadTotalIsSizeDifference ==
  [][(StopReturnStep /\ kind = "download") =>
        /\ returned'.total = env - initialBytes
        /\ returned'.total >= 0]_vars

\* C20: in every state stopTime is not earlier than startTime.
C20_StopTimeNotBeforeStartTime == stopTime >= startTime


(***************************************************************************)
(* OutputVerifier.Analyze and CompareOutputs (pkg/monitor/output.go), on   *)
(* their own.  A directory maps relative paths to files; a file has a size *)
(* (in units of 50 MiB), a content (files of one size differ by variant)   *)
(* and may be unreadable.  SHA-256 is taken to be free of collisions: a    *)
(* digest is modelled by what was digested.                                *)
(***************************************************************************)
\* 100*1024*1024 bytes: files of that size or more are not read.
HashLimit == 2

Paths == {"a", "b"}
FileSizes == 1..3
Variants == 1..2

Files == [size : FileSizes, variant : Variants, readable : BOOLEAN]
Directories == UNION {[P -> Files] : P \in SUBSET Paths}

\* The orders in which the files of a set can be visited.
Orders(S) ==
  {o \in [1..Cardinality(S) -> S] : \A x \in S : \E i \in DOMAIN o : o[i] = x}

\* The empty string hashFile returns with its error.
NoHash == <<>>

\* hashFile: the SHA-256 of the content, in hex; "" when the file cannot be
\* opened.  Hex digits sort before the "s" of a pseudo-hash.
hashFile(f) == IF f.readable THEN <<0, f.size, f.variant>> ELSE NoHash

\* fmt.Sprintf("size:%d", info.Size())
PseudoHash(f) == <<1, f.size, 0>>

\* The hash Analyze computes for a file, NoHash if it records none.
FileHash(f) == IF f.size < HashLimit THEN hashFile(f) ELSE PseudoHash(f)

\* String order on hashes.
HashLess(g, h) ==
  \/ g[1] < h[1]
  \/ g[1] = h[1] /\ g[2] < h[2]
  \/ g[1] = h[1] /\ g[2] = h[2] /\ g[3] < h[3]

RECURSIVE InsertHash(_, _)
InsertHash(h, hs) ==
  IF hs = <<>> THEN <<h>>
  ELSE IF HashLess(h, Head(hs)) THEN <<h>> \o hs
  ELSE <<Head(hs)>> \o InsertHash(h, Tail(hs))

Unsorted(hs) == hs

\* sort.Strings(allHashes)
RECURSIVE SortStrings(_)
SortStrings(hs) ==
  IF hs = <<>> THEN <<>> ELSE InsertHash(Head(hs), SortStrings(Tail(hs)))

\* combinedHash.Write([]byte(h)) for each h: the digest of the concatenation.
RECURSIVE CombinedHash(_)
CombinedHash(hs) == IF hs = <<>> THEN <<>> ELSE Head(hs) \o CombinedHash(Tail(hs))

\* Analyze before the walk.
NewMetrics == [TotalSize |-> 0, TotalFiles |-> 0, FileHashes |-> <<>>, allHashes |-> <<>>]

\* The walk function on one file.
Visit(m, path, f) ==
  LET hash == FileHash(f)
      m1 == [m EXCEPT !.TotalFiles = @ + 1, !.TotalSize = @ + f.size]
  IN IF hash = NoHash THEN m1
     ELSE [m1 EXCEPT !.FileHashes = [q \in DOMAIN @ \cup {path} |->
                                       IF q = path THEN hash ELSE @[q]],
                     !.allHashes = Append(@, hash)]

RECURSIVE Walk(_, _, _, _)
Walk(m, dir, order, i) ==
  IF i > Len(order) THEN m
  ELSE Walk(Visit(m, order[i], dir[order[i]]), dir, order, i + 1)

\* Analyze, the files visited in the given order.
Analyze(dir, order) ==
  LET m == Walk(NewMetrics, dir, order, 1)
  IN [TotalSize |-> m.TotalSize, TotalFiles |-> m.TotalFiles,
      FileHashes |-> m.FileHashes,
      DirectoryHash |-> CombinedHash(SortStrings(m.allHashes))]

\* The comparison of the two analyses as CompareOutputs received them; each
\* list in the order the map iteration happened to produce.
Comparison(metrics1, metrics2, missingInFirst, missingInSecond, differentContent) ==
  LET hashMatch == metrics1.DirectoryHash = metrics2.DirectoryHash
  IN [called |-> TRUE,
      SizeDifference |-> metrics1.TotalSize - metrics2.TotalSize,
      FileCountDiff |-> metrics1.TotalFiles - metrics2.TotalFiles,
      HashMatch |-> hashMatch,
      MissingInFirst |-> missingInFirst,
      MissingInSecond |-> missingInSecond,
      DifferentContent |-> differentContent,
      Match |-> /\ hashMatch
                /\ Len(missingInFirst) = 0
                /\ Len(missingInSecond) = 0
                /\ Len(differentContent) = 0]

InitOutputs ==
  /\ outDirs \in [1..2 -> Directories]
  /\ resultsChan = <<>>
  /\ outResult = NotCalled
  /\ progress = NoProgress
  /\ cmpResults = <<>>
  /\ cmpReport = NotCalled
  /\ RunIdle
  /\ MonitorIdle

\* One of the two goroutines: verifier.Analyze(), then the send.  Which
\* directory a message is about is kept for the record; the receiver has no
\* such field.
AnalyzeAndSend(d) ==
  /\ \A k \in DOMAIN resultsChan : resultsChan[k].dir # d
  /\ \E order \in Orders(DOMAIN outDirs[d]) :
       resultsChan' = Append(resultsChan,
                             [metrics |-> Analyze(outDirs[d], order), dir |-> d])
  /\ UNCHANGED <<cmpResults, cmpReport, outDirs, outResult, progress, monVars, runVars>>

\* Both results received, the first as metrics1, the second as metrics2.
CollectAndCompare ==
  /\ Len(resultsChan) = 2
  /\ ~outResult.called
  /\ LET metrics1 == resultsChan[1].metrics
         metrics2 == resultsChan[2].metrics
         h1 == metrics1.FileHashes
         h2 == metrics2.FileHashes
         different == {q \in DOMAIN h1 : q \in DOMAIN h2 /\ h1[q] # h2[q]}
         missing2 == DOMAIN h1 \ DOMAIN h2
         missing1 == DOMAIN h2 \ DOMAIN h1
     IN \E mf \in Orders(missing1), ms \in Orders(missing2), dc \in Orders(different) :
          outResult' = Comparison(metrics1, metrics2, mf, ms, dc)
  /\ UNCHANGED <<cmpResults, cmpReport, outDirs, resultsChan, progress, monVars, runVars>>

NextOutputs ==
  \/ \E d \in 1..2 : AnalyzeAndSend(d)
  \/ CollectAndCompare

SpecOutputs == InitOutputs /\ [][NextOutputs]_vars

(***************************************************************************)
(* pkg/monitor/download.go: the sampling loop and its progress channel over *)
(* a long session.  Samples and channel items are counted, not kept: what   *)
(* matters here is how many there are.                                      *)
(***************************************************************************)
\* case progressChan <- progress: whether the send can proceed at once.  The
\* channel is buffered and a receiver takes items out of the buffer, so the
\* send proceeds exactly when the buffer has room.
SendReady(buffered) == buffered < ProgressChanCap

\* Whether the select can proceed.  It has a default case, so it always can; a
\* bare send would wait for room in the buffer.
SelectReadyWhenRoom(buffered) == SendReady(buffered)
SelectReady(buffered) == TRUE

InitProgress ==
  /\ progress = NoProgress
  /\ cmpResults = <<>>
  /\ cmpReport = NotCalled
  /\ outDirs = <<>>
  /\ resultsChan = <<>>
  /\ outResult = NotCalled
  /\ RunIdle
  /\ MonitorIdle

\* case <-ticker.C: the sample is built and appended, under the lock.
ProgressSample ==
  /\ progress.pc = "wait"
  /\ progress.samples < MaxTicks
  /\ progress' = [progress EXCEPT !.samples = @ + 1, !.pc = "readshow"]
  /\ UNCHANGED <<cmpResults, cmpReport, outDirs, resultsChan, outResult, monVars, runVars>>

\* if dm.showProgress, read with the lock released: the loop goes to send the
\* progress update if it is set (during a session the channel is not nil), and
\* back to its top if not.
ProgressReadShow ==
  /\ progress.pc = "readshow"
  /\ progress' = IF progress.show
                   THEN [progress EXCEPT !.pc = "send"]
                   ELSE [progress EXCEPT !.skipped = @ + 1, !.pc = "wait"]
  /\ UNCHANGED <<cmpResults, cmpReport, outDirs, resultsChan, outResult, monVars, runVars>>

\* select { case progressChan <- progress: default: }: the update goes into
\* the buffer if the send is ready, otherwise the default branch is taken.
\* Either way the loop is back at its top, waiting for the next tick.
ProgressSend ==
  /\ progress.pc = "send"
  /\ SelectReady(progress.buffered)
  /\ progress' = IF SendReady(progress.buffered)
                   THEN [progress EXCEPT !.buffered = @ + 1, !.pc = "wait"]
                   ELSE [progress EXCEPT !.dropped = @ + 1, !.pc = "wait"]
  /\ UNCHANGED <<cmpResults, cmpReport, outDirs, resultsChan, outResult, monVars, runVars>>

\* SetShowProgress, at any time.
ProgressShow(show) ==
  /\ progress' = [progress EXCEPT !.show = show]
  /\ UNCHANGED <<cmpResults, cmpReport, outDirs, resultsChan, outResult, monVars, runVars>>

\* GetProgressChannel: during a session it hands out the session's channel.
\* Whoever called it is the receiver; nothing in the program does.
ProgressGetChannel ==
  /\ progress' = [progress EXCEPT !.receiver = TRUE]
  /\ UNCHANGED <<cmpResults, cmpReport, outDirs, resultsChan, outResult, monVars, runVars>>

\* The holder of the channel receives one update.
ProgressReceive ==
  /\ progress.receiver
  /\ progress.buffered > 0
  /\ progress' = [progress EXCEPT !.buffered = @ - 1, !.received = @ + 1]
  /\ UNCHANGED <<cmpResults, cmpReport, outDirs, resultsChan, outResult, monVars, runVars>>

NextProgress ==
  \/ ProgressSample
  \/ ProgressReadShow
  \/ \E show \in BOOLEAN : ProgressShow(show)
  \/ ProgressGetChannel
  \/ ProgressSend
  \/ ProgressReceive

SpecProgress == InitProgress /\ [][NextProgress]_vars


(***************************************************************************)
(* The comparison report.                                                  *)
(***************************************************************************)
ComparedFields == {"downloadTime", "uploadTime", "bytesUploaded", "cacheHits"}
TimeFields == {"downloadTime", "uploadTime"}

RECURSIVE Total(_, _)
Total(rs, f) == IF rs = <<>> THEN 0 ELSE Head(rs)[f] + Total(Tail(rs), f)

\* The mean of elements 1..k-1 (0-based), cut to an integer.
MeanOfCached(rs, f) == Total(Tail(rs), f) \div (Len(rs) - 1)

\* imp is (clean - cached) / clean * 100, to two decimals.
IsPercentage(imp, clean, cached) ==
  /\ imp.kind = "number"
  /\ imp.minus = (clean - cached < 0)
  /\ LET signed == IF imp.minus THEN 0 - imp.hundredths ELSE imp.hundredths
         diff == signed * clean - 10000 * (clean - cached)
     IN 2 * diff <= clean /\ 2 * (0 - diff) <= clean

\* The clean value is element 0, the cached figure the mean of the rest.
CleanAndCachedLines ==
  \A f \in ComparedFields :
    /\ cmpReport[f].clean = cmpResults[1][f]
    /\ cmpReport[f].cached = MeanOfCached(cmpResults, f)

\* C21, as claimed: with k >= 2 results the comparison reports, for each of
\* download time, upload time, bytes uploaded and cache hits, the clean value
\* (element 0), the mean of elements 1..k-1 and the percentage improvement
\* (clean - cached) / clean * 100; with fewer than 2 results it prints nothing.
C21_ImprovementForAllFour ==
  cmpReport.called =>
    IF Len(cmpResults) < 2 THEN ~cmpReport.printed
    ELSE /\ cmpReport.printed
         /\ CleanAndCachedLines
         /\ \A f \in ComparedFields :
              cmpReport[f].clean # 0 =>
                IsPercentage(cmpReport[f].improvement, cmpReport[f].clean,
                             cmpReport[f].cached)

\* C21, amended: with k >= 2 results the comparison reports the clean value
\* (element 0) and the integer mean of elements 1..k-1 for all four figures;
\* the percentage improvement only for the two wall times, and only when the
\* cached average is positive (-Inf when the clean time is zero); with fewer
\* than 2 results it prints nothing.
C21_CleanVsCachedReport ==
  cmpReport.called =>
    IF Len(cmpResults) < 2 THEN ~cmpReport.printed
    ELSE /\ cmpReport.printed
         /\ CleanAndCachedLines
         /\ \A f \in ComparedFields \ TimeFields :
              cmpReport[f].improvement = NoImprovement
         /\ \A f \in TimeFields :
              LET l == cmpReport[f]
              IN CASE l.cached <= 0 -> l.improvement = NoImprovement
                   [] l.clean = 0 -> l.improvement.kind = "-Inf"
                   [] OTHER -> IsPercentage(l.improvement, l.clean, l.cached)

\* Three results: download 160, then 67 and 67 (mean 67; the improvement,
\* 58.125 on paper, is 58.12500000000001 in float64 and prints as 58.13), and
\* cached byte counts 0 and 1, whose mean is cut to 0.
C21_Witness ==
  /\ cmpReport.called
  /\ Len(cmpResults) = 3
  /\ cmpResults[2].downloadTime = 67
  /\ cmpResults[3].downloadTime = 67
  /\ cmpReport.downloadTime =
       [clean |-> 160, cached |-> 67,
        improvement |-> [kind |-> "number", hundredths |-> 5813, minus |-> FALSE]]
  /\ cmpResults[2].bytesUploaded = 0
  /\ cmpResults[3].bytesUploaded = 1
  /\ cmpReport.bytesUploaded.cached = 0

\* Two results whose wall time f is the same.
EqualPair(f) ==
  /\ cmpReport.called
  /\ Len(cmpResults) = 2
  /\ cmpResults[1][f] = cmpResults[2][f]

ZeroPercent == [kind |-> "number", hundredths |-> 0, minus |-> FALSE]

\* C22, as claimed: given exactly 2 results with equal download times and
\* equal upload times, zero included, the comparison reports an improvement
\* of 0% for each.
C22_EqualTimesReportZeroPercent ==
  \A f \in TimeFields : EqualPair(f) => cmpReport[f].improvement = ZeroPercent

\* C22, amended: given exactly 2 results with equal wall times, the
\* comparison reports an improvement of 0% when the time is positive and no
\* improvement at all when it is zero; it never divides by zero.
C22_EqualTimesNoDivisionByZero ==
  \A f \in TimeFields :
    EqualPair(f) =>
      /\ cmpResults[1][f] > 0 => cmpReport[f].improvement = ZeroPercent
      /\ cmpResults[1][f] = 0 => cmpReport[f].improvement = NoImprovement
      /\ cmpReport[f].improvement.kind \notin {"NaN", "-Inf", "+Inf"}

\* Two results, download 67 and 67 (0%), upload 0 and 0 (no improvement line).
C22_Witness ==
  /\ EqualPair("downloadTime")
  /\ EqualPair("uploadTime")
  /\ cmpResults[1].downloadTime = 67
  /\ cmpResults[1].uploadTime = 0
  /\ cmpReport.downloadTime.improvement = ZeroPercent
  /\ cmpReport.uploadTime.improvement = NoImprovement


(***************************************************************************)
(* The content-equality check.                                             *)
(***************************************************************************)
Content(f) == <<f.size, f.variant>>

\* The paths whose files differ in content between the two directories.
Differing ==
  {q \in DOMAIN outDirs[1] \cap DOMAIN outDirs[2] :
     Content(outDirs[1][q]) # Content(outDirs[2][q])}

\* CompareOutputs has returned for two directories with the same relative
\* paths, exactly one of which has a different content.
OneFileDiffers ==
  /\ outResult.called
  /\ DOMAIN outDirs[1] = DOMAIN outDirs[2]
  /\ Cardinality(Differing) = 1

ReportsOneDifference ==
  /\ ~outResult.Match
  /\ Len(outResult.DifferentContent) = 1
  /\ outResult.DifferentContent[1] \in Differing
  /\ outResult.MissingInFirst = <<>>
  /\ outResult.MissingInSecond = <<>>

\* C23, as claimed: same relative paths and exactly one file, of any size,
\* differing in content: match=false, exactly one entry in differentContent,
\* none in missingInFirst or missingInSecond.
C23_AnyDifferingFileReported == OneFileDiffers => ReportsOneDifference

(***************************************************************************)
(* The directory fingerprint.                                              *)
(***************************************************************************)
\* C24: two analyses of the same file set, in whatever orders the files were
\* visited, give the same DirectoryHash.
C24_FingerprintOrderIndependent ==
  \A j, k \in DOMAIN resultsChan :
    outDirs[resultsChan[j].dir] = outDirs[resultsChan[k].dir] =>
      resultsChan[j].metrics.DirectoryHash = resultsChan[k].metrics.DirectoryHash

\* Both directories hold the same two files, of different hashes, and both
\* have been analysed.
C24_Witness ==
  /\ Len(resultsChan) = 2
  /\ outDirs[1] = outDirs[2]
  /\ DOMAIN outDirs[1] = {"a", "b"}
  /\ FileHash(outDirs[1]["a"]) # NoHash
  /\ FileHash(outDirs[1]["b"]) # NoHash
  /\ HashLess(FileHash(outDirs[1]["b"]), FileHash(outDirs[1]["a"]))
  /\ resultsChan[1].metrics.DirectoryHash = resultsChan[2].metrics.DirectoryHash
  /\ resultsChan[1].metrics.DirectoryHash # <<>>


(***************************************************************************)
(* The live snapshot of the registry monitor.                              *)
(***************************************************************************)
\* C25: while a registry monitor runs, the snapshot getCurrentMetrics takes
\* of the samples collected so far reports the total bytes uploaded, the
\* average, peak and minimum upload rate and the connection count that
\* calculateMetrics, Stop's aggregation, computes from the same samples.
C25_SnapshotAgreesWithStop ==
  (kind = "registry" /\ monitoring) =>
    LET live == getCurrentMetrics(samples, startTime, now, initialBytes)
        stopped == CalcRegistry(samples, startTime, now)
    IN /\ live.total = stopped.total
       /\ live.avg = stopped.avg
       /\ live.peak = stopped.peak
       /\ live.min = stopped.min
       /\ live.conns = stopped.conns


(***************************************************************************)
(* The start callback of a command.                                        *)
(***************************************************************************)
\* C26: a command whose child was spawned has had onStart invoked exactly
\* once, with the child's PID, and that already while the command is running
\* (before Wait returns); a command whose spawn failed has had no onStart.
C26_OnStartOnceAfterSpawn ==
  \A k \in DOMAIN cmds :
    IF cmds[k].pid # NoPid
      THEN cmds[k].onStart = <<cmds[k].pid>>
      ELSE cmds[k].onStart = <<>> /\ cmds[k].outcome = "failed"

\* The upload command of the first iteration is running, its callback made
\* with its own PID, after a download command with another PID.
C26_Witness ==
  /\ rpc = "up_wait"
  /\ Len(cmds) = 2
  /\ cmds[2].outcome = "running"
  /\ cmds[2].onStart = <<cmds[2].pid>>
  /\ cmds[1].onStart = <<cmds[1].pid>>
  /\ cmds[1].pid # cmds[2].pid


(***************************************************************************)
(* How many monitors run at a time.                                        *)
(***************************************************************************)
\* The monitors whose running flag is set.
RunningMonitors ==
  {<<k, n>> \in (DOMAIN mons) \X MonitorNames : mons[k].m[n].monitoring}

\* Inside runDownloadPhase (where the program is when it ends in a panic),
\* between the two phases, inside runUploadPhase.
DownloadPhasePcs ==
  {"dl_mkdir", "dl_mon_start", "dl_exec", "dl_wait", "dl_stop_dl", "dl_stop_res",
   "crashed"}
BoundaryPcs == {"up_net_start", "net_stop"}
UploadPhasePcs == {"up_cfg", "up_exec", "up_wait", "up_stop_res"}

\* C27, as claimed: within a phase at most two monitors are running, and
\* only around the download-to-upload boundary up to two more.
C27_TwoMonitorsPerPhase ==
  IF rpc \in BoundaryPcs
    THEN Cardinality(RunningMonitors) <= 4
    ELSE Cardinality(RunningMonitors) <= 2

\* C27, amended: up to four monitors are running during the download phase
\* (network, overall resource, download, the phase's resource monitor), up
\* to three during the upload phase and around the download-to-upload
\* boundary, and at most two at any other time.
C27_MonitorsPerPhase ==
  CASE rpc \in DownloadPhasePcs -> Cardinality(RunningMonitors) <= 4
    [] rpc \in UploadPhasePcs -> Cardinality(RunningMonitors) <= 3
    [] rpc \in BoundaryPcs -> Cardinality(RunningMonitors) <= 3
    [] OTHER -> Cardinality(RunningMonitors) <= 2

\* The download command of the second iteration is running, and four
\* monitors with it.
C27_Witness ==
  /\ rpc = "dl_wait"
  /\ Len(mons) = 2
  /\ RunningMonitors =
       {<<2, "network">>, <<2, "overallResource">>, <<2, "download">>,
        <<2, "downloadResource">>}


(***************************************************************************)
(* What an iteration finds in its mirror directory.                        *)
(***************************************************************************)
\* From the first monitor start of an iteration until its download command
\* has finished.
BeforeDownloadPcs ==
  {"it_net_start", "it_overall_start", "dl_mkdir", "dl_mon_start", "dl_exec", "dl_wait"}

\* C28: iteration 1 of a version group begins with the version's mirror
\* directory wiped, whatever was there before; iteration i > 1 begins with what
\* iterations 1..i-1 of the same group wrote, nothing removed.
C28_WipedOnlyBeforeFirstIteration ==
  rpc \in BeforeDownloadPcs => mirrorDirs[version] = 1..iter

\* The third iteration of the v2 group of a comparison begins: the directory
\* holds what the first two iterations wrote.
C28_Witness ==
  /\ compareV1V2
  /\ version = "v2"
  /\ rpc = "it_net_start"
  /\ iter = 2
  /\ ~isCleanRun
  /\ mirrorDirs["v2"] = {1, 2}


(***************************************************************************)
(* The target PID of the resource monitor.                                 *)
(***************************************************************************)
\* C29: every read of the target PID by the sampling loop and every write of
\* it by SetTargetPID is made holding the monitor's lock.
C29_PidAccessUnderLock == \A a \in accesses : a.v # "pid"


(***************************************************************************)
(* The end of the sampling task.                                           *)
(***************************************************************************)
\* C30: once Stop has cleared the running flag, and as long as Start has not
\* set it again, a sampling task that comes to its check of the flag observes
\* it cleared and exits: it does not go on to wait for another tick.
C30_LoopExitsOnClearedFlag ==
  [][\A g \in DOMAIN loops :
       (~monitoring /\ loops[g].pc = "check" /\ loops'[g].pc # "check")
         => loops'[g].pc = "done"]_vars


(***************************************************************************)
(* The progress channel never stalls the download loop.                    *)
(***************************************************************************)
\* The loop's step out of the send, in the state where it is taken.
SendStep == progress.pc = "send" /\ progress'.pc # "send"

\* After the step the tick's sample is still recorded and the loop waits for
\* the next tick.
SampleKeptLoopGoesOn ==
  /\ progress'.pc = "wait"
  /\ progress'.samples = progress.samples
  /\ progress'.received = progress.received
  /\ progress'.skipped = progress.skipped

\* The step drops the update: the channel is left as it was.
UpdateDropped ==
  /\ progress'.buffered = progress.buffered
  /\ progress'.dropped = progress.dropped + 1

\* The step puts the update into the channel's buffer.
UpdateBuffered ==
  /\ progress'.buffered = progress.buffered + 1
  /\ progress'.dropped = progress.dropped

\* Every sample is accounted for: its update is buffered, received, dropped,
\* not sent because showProgress was off, or about to be decided.
SamplesAccounted ==
  progress.samples = progress.buffered + progress.received + progress.dropped
                       + progress.skipped
                       + (IF progress.pc \in {"readshow", "send"} THEN 1 ELSE 0)

PhaseMonitors(phase) ==
  IF phase = "download" THEN {"download", "downloadResource"} ELSE {"uploadResource"}

\* The commands of the k-th runIteration call that failed.
FailedCommands(k) ==
  {c \in DOMAIN cmds : /\ cmds[c].version = mons[k].version
                        /\ cmds[c].iteration = mons[k].iteration
                        /\ cmds[c].outcome = "failed"}

\* Those of the phase's monitors that the k-th call has stopped.
StoppedOf(k, phase) == {n \in PhaseMonitors(phase) : mons[k].m[n].stops > 0}

\* The phase runner's half of C32: the metrics returned with the error hold
\* the aggregates of the phase's monitors.
PhaseCarriesAggregates ==
  \A k \in DOMAIN mons : \A c \in FailedCommands(k) :
    (mons[k].phaseOut.returned /\ mons[k].phaseOut.failed)
      => StoppedOf(k, cmds[c].phase) \subseteq mons[k].phaseOut.carries

\* C32: when a phase's command failed, the value returned with the error, by
\* the phase runner and by the iteration around it, holds the aggregates
\* that stopping the phase's monitors produced.
C32_ErrorResultCarriesAggregates ==
  /\ PhaseCarriesAggregates
  /\ \A k \in DOMAIN mons : \A c \in FailedCommands(k) :
       (mons[k].iterOut.returned /\ mons[k].iterOut.failed)
         => /\ StoppedOf(k, cmds[c].phase) # {}
            /\ StoppedOf(k, cmds[c].phase) \subseteq mons[k].iterOut.carries


(***************************************************************************)
(* What a clean run starts from.                                           *)
(***************************************************************************)
\* C33: when the download command of a clean run is launched, the version's
\* mirror directory and its cache directory are both empty, whatever they
\* held when Run was called.
C33_CleanRunStartsEmpty ==
  (rpc = "dl_exec" /\ isCleanRun)
    => (mirrorDirs[version] = {} /\ cacheDirs[version] = {})


(***************************************************************************)
(* Averages and peaks.                                                     *)
(***************************************************************************)
\* The sum over the samples of s of the quantity f.
RECURSIVE SumOver(_, _)
SumOver(s, f) == IF s = <<>> THEN 0 ELSE Head(s)[f] + SumOver(Tail(s), f)

\* The largest value in the set V of integers (not empty).
Largest(V) == CHOOSE r \in V : \A v \in V : v <= r

\* The step on which Stop computes and returns its aggregate.
StopAggregates == callerPc = "stopping" /\ callerPc' = "idle"

\* C34: the average Stop reports for a sampled quantity is the mean over all
\* samples of the session, the peak the largest sample value, for every
\* monitor.  NetworkMonitor samples two quantities, the receive and the
\* transmit rate, and reports the peak of their sum.
C34_MeanAndMaxOverAllSamples ==
  [][(StopAggregates /\ samples # <<>>)
       => IF kind = "network"
            THEN /\ returned'.avgRx = SumOver(samples, "rxRate") \div Len(samples)
                 /\ returned'.avgTx = SumOver(samples, "txRate") \div Len(samples)
                 /\ returned'.peak =
                      Largest({samples[i].rxRate + samples[i].txRate : i \in DOMAIN samples})
            ELSE /\ returned'.avg = SumOver(samples, "rate") \div Len(samples)
                 /\ returned'.peak = Largest({samples[i].rate : i \in DOMAIN samples})]_vars


(***************************************************************************)
(* What the version comparison compares.                                   *)
(***************************************************************************)
\* C35: in version-comparison mode, when the comparison of the two versions
\* makes its content-equality check, the mirror directory of each version
\* still holds what the last iteration of that version's group produced.
C35_OutputsIntactAtComparison ==
  (rpc = "store" /\ Len(v1Results) > 0 /\ Len(v2Results) > 0)
    => \A v \in {"v1", "v2"} : iterations \in mirrorDirs[v]


(***************************************************************************)
(* CompareOutputs and the order in which its two analyses finish.          *)
(***************************************************************************)
\* The elements of a sequence, as a set.
Range(q) == {q[i] : i \in DOMAIN q}

\* The analysis of directory d of the call.
AnalysisOf(d) == Analyze(outDirs[d], CHOOSE o \in Orders(DOMAIN outDirs[d]) : TRUE)

\* C36: whichever analysis finishes first, the result of CompareOutputs(dir1,
\* dir2) has SizeDifference and FileCountDiff as dir1 minus dir2,
\* MissingInFirst exactly the paths only dir2 has and MissingInSecond exactly
\* the paths only dir1 has.
C36_ResultIndependentOfArrival ==
  outResult.called =>
    /\ outResult.SizeDifference = AnalysisOf(1).TotalSize - AnalysisOf(2).TotalSize
    /\ outResult.FileCountDiff = AnalysisOf(1).TotalFiles - AnalysisOf(2).TotalFiles
    /\ Range(outResult.MissingInFirst) = DOMAIN outDirs[2] \ DOMAIN outDirs[1]
    /\ Range(outResult.MissingInSecond) = DOMAIN outDirs[1] \ DOMAIN outDirs[2]


(***************************************************************************)
(* One producer per monitor.                                               *)
(***************************************************************************)
\* The sampling tasks of the monitor that have not returned.
LiveTasks == {g \in DOMAIN loops : loops[g].pc # "done"}

\* C37: whatever Start and Stop calls are made on a monitor, a Start soon
\* after a Stop included, at most one of its sampling tasks is alive.
C37_AtMostOneSamplingTask == Cardinality(LiveTasks) <= 1


(***************************************************************************)
(* Minimum, average and peak rate.                                         *)
(***************************************************************************)
\* C38: for the download and the registry monitor, the aggregate of a
\* session whose samples all have a rate of zero or more has
\* minimum rate <= average rate <= peak rate.
C38_MinAvgPeakOrdered ==
  (/\ kind \in {"download", "registry"}
   /\ returned # NoMetrics
   /\ returned.samples # <<>>
   /\ \A i \in DOMAIN returned.samples : returned.samples[i].rate >= 0)
    => (returned.min <= returned.avg /\ returned.avg <= returned.peak)


(***************************************************************************)
(* CPU percentages.                                                        *)
(***************************************************************************)
\* C39: every CPU-percentage sample the resource monitor records is zero or
\* more, also on a tick whose accounting read fails after one that succeeded
\* and on a tick after the target was changed; so is the average it reports.
C39_CpuPercentNeverNegative ==
  kind = "resource" =>
    /\ \A i \in DOMAIN samples : samples[i].rate >= 0
    /\ (returned # NoMetrics => returned.avg >= 0)


(***************************************************************************)
(* The configured number of iterations.                                    *)
(***************************************************************************)
\* The version groups a run has.
Groups(cmp) == IF cmp THEN {"v1", "v2"} ELSE {FirstVersion(cmp)}

\* C40: for every configuration Validate accepts, one iteration with version
\* comparison included, a run that completes has run exactly the configured
\* number of iterations of each version group.
C40_RunsConfiguredIterations ==
  (/\ Validate(cfgIterations, compareV1V2) = NilError
   /\ rpc = "returned"
   /\ runErr = NilError)
    => \A v \in Groups(compareV1V2) : IterationsBegun(v) = cfgIterations
====
